---- MODULE Spec2Model ----
(***************************************************************************)
(* Verification model of the sediment-report extraction pipeline.          *)
(*                                                                         *)
(* Units.  Python floats are held as fixed-point integers:                 *)
(*   organic matter (MOT) averages  : hundredths of a percent (9.0 -> 900) *)
(*   pH averages                    : hundredths (7.1 -> 710)              *)
(*   Eh averages                    : millivolts (round(x, 0))             *)
(* Python None is the string "None" in string-valued fields and NoneNum in *)
(* number-valued fields.                                                   *)
(***************************************************************************)
EXTENDS Integers, Sequences, FiniteSets, TLC

None == "None"
NoneNum == -99999

(***************************************************************************)
(* Bounds of the model.                                                    *)
(***************************************************************************)
MaxPromedios == 4
MaxEstaciones == 4
MaxEstacionesUmbral == 20
MaxPaginas == 2
MaxFragmentos == 2
MaxPaginasDoc == 2
MaxDocumentos == 2
MaxPalabras == 3
MaxPaginasTexto == 2
MaxMediciones == 2
MaxLineas == 2
MaxRegistros == 3

VARIABLES
    fase,                 \* which step of the specification has run
    estaciones,           \* classifier input: consolidated stations
    promedios_mot,        \* classifier input: organic-matter averages
    promedios_ph_redox,   \* classifier input: pH / Eh averages
    tipo_monitoreo,       \* classifier input: monitoring type
    diagnostico,          \* result of sedimento_extractor._determinar_estado_centro
    diagnostico_s,        \* result of sedimento._diagnosticar_estado
    textos,               \* pattern search input: the page texts of a document
    campo,                \* pattern search input: the METADATA_PATTERNS key
    resultado,            \* results of the pattern search functions
    documento,            \* metadata extraction input: the PDF file
    metadatos,            \* result of MetadataExtractor.extraer_todos
    dry_run,              \* ProcessingOrchestrator.dry_run
    stats,                \* ProcessingOrchestrator.stats
    db,                   \* rows committed to the database
    ultimo,               \* the last process_single_pdf call: file and steps run
    por_procesar,         \* files the loop of process_directory has still to process
    argumento,            \* input of the function a function specification calls
    retorno               \* what that function returned

varsClasif == <<estaciones, promedios_mot, promedios_ph_redox, tipo_monitoreo,
                diagnostico, diagnostico_s>>

varsCascada == <<textos, campo, resultado>>

varsMeta == <<documento, metadatos>>

varsPipe == <<dry_run, stats, db, ultimo, por_procesar>>

varsFuncion == <<argumento, retorno>>

vars == <<fase, varsClasif, varsCascada, varsMeta, varsPipe, varsFuncion>>

(***************************************************************************)
(* Python helpers.                                                         *)
(***************************************************************************)
Max(a, b) == IF a >= b THEN a ELSE b

\* dict.get(key, default)
DictGet(d, k, default) == IF k \in DOMAIN d THEN d[k] ELSE default

\* truth value of an Optional[float]: None and 0.0 are falsy
Truthy(x) == x # NoneNum /\ x # 0

\* the variables of the parts a specification does not run
SinClasif ==
    /\ estaciones = << >>
    /\ promedios_mot = << >>
    /\ promedios_ph_redox = << >>
    /\ tipo_monitoreo = None
    /\ diagnostico = [pendiente |-> TRUE]
    /\ diagnostico_s = [pendiente |-> TRUE]

SinCascada ==
    /\ textos = << >>
    /\ campo = None
    /\ resultado = [pendiente |-> TRUE]

SinMeta ==
    /\ documento = [pendiente |-> TRUE]
    /\ metadatos = [pendiente |-> TRUE]

SinFuncion ==
    /\ argumento = [pendiente |-> TRUE]
    /\ retorno = [pendiente |-> TRUE]

SinOrquestador ==
    /\ dry_run = FALSE
    /\ stats = [total |-> 0, exitosos |-> 0, fallidos |-> 0, parciales |-> 0]
    /\ db = {}
    /\ ultimo = [pendiente |-> TRUE]
    /\ por_procesar = 0

(***************************************************************************)
(* Threshold tables.                                                       *)
(***************************************************************************)
UMBRALES ==
    ("INFA" :> [MOT |-> 900, pH |-> 710, Eh |-> 50]) @@
    ("INFA-POSTANAEROBICA" :> [MOT |-> 800, pH |-> 710, Eh |-> 75]) @@
    ("CPS" :> [MOT |-> 900, pH |-> 710, Eh |-> 50])

REGULATORY_LIMITS ==
    ("INFA" :> [MOT |-> 900, pH |-> 710, Eh |-> 50, OXIGENO |-> 250]) @@
    ("INFA-POSTANAEROBICA" :> [MOT |-> 800, pH |-> 710, Eh |-> 75, OXIGENO |-> 300]) @@
    ("CPS" :> [MOT |-> 900, pH |-> 710, Eh |-> 50, OXIGENO |-> 250])

ANAEROBIC_THRESHOLD == 30
ANAEROBIC_MIN_STATIONS == 3

(***************************************************************************)
(* ComplianceClassifier.                                                   *)
(***************************************************************************)
\* a plausible slip: the 30 % share rounded up instead of truncated
UmbralTecho(n) == Max(3, (n * 30 + 99) \div 100)

\* max(3, int(total_estaciones * 0.30)).  For every n below 2*10^6 the double
\* product n * 0.30 truncates to the same integer as (30 * n) \div 100.
UmbralIncumplimientos(n) == Max(3, (n * 30) \div 100)

\* max(ANAEROBIC_MIN_STATIONS, int(total_estaciones * ANAEROBIC_THRESHOLD))
UmbralS(n) == Max(ANAEROBIC_MIN_STATIONS, (n * ANAEROBIC_THRESHOLD) \div 100)

\* a plausible slip: an average equal to the maximum counted as a violation
IncumpleMotNoEstricto(prom, umbrales) == prom.mot_promedio >= umbrales.MOT

\* prom['mot_promedio'] > umbrales['MOT']
IncumpleMot(prom, umbrales) == prom.mot_promedio > umbrales.MOT

RECURSIVE ContarMot(_, _)
ContarMot(proms, umbrales) ==
    IF proms = << >> THEN 0
    ELSE (IF IncumpleMot(Head(proms), umbrales) THEN 1 ELSE 0)
         + ContarMot(Tail(proms), umbrales)

\* a plausible slip: the two failures joined by or
IncumplePhEhDisyuncion(prom, umbrales) ==
    LET incumple_ph == prom.ph_promedio # NoneNum /\ prom.ph_promedio < umbrales.pH
        incumple_eh == prom.eh_promedio # NoneNum /\ prom.eh_promedio < umbrales.Eh
    IN  incumple_ph \/ incumple_eh

\* sedimento_extractor.py: "is not None and <" on both averages, joined by and
IncumplePhEh(prom, umbrales) ==
    LET incumple_ph == prom.ph_promedio # NoneNum /\ prom.ph_promedio < umbrales.pH
        incumple_eh == prom.eh_promedio # NoneNum /\ prom.eh_promedio < umbrales.Eh
    IN  incumple_ph /\ incumple_eh

RECURSIVE ContarPhEh(_, _)
ContarPhEh(proms, umbrales) ==
    IF proms = << >> THEN 0
    ELSE (IF IncumplePhEh(Head(proms), umbrales) THEN 1 ELSE 0)
         + ContarPhEh(Tail(proms), umbrales)

\* sedimento.py: truthiness of the average, then the comparison
IncumplePhEhS(prom, umbrales) ==
    LET incumple_ph == Truthy(prom.ph_promedio) /\ prom.ph_promedio < umbrales.pH
        incumple_eh == Truthy(prom.eh_promedio) /\ prom.eh_promedio < umbrales.Eh
    IN  incumple_ph /\ incumple_eh

RECURSIVE ContarPhEhS(_, _)
ContarPhEhS(proms, umbrales) ==
    IF proms = << >> THEN 0
    ELSE (IF IncumplePhEhS(Head(proms), umbrales) THEN 1 ELSE 0)
         + ContarPhEhS(Tail(proms), umbrales)

\* a plausible slip: the threshold must be exceeded, not met
EsAnaerobicoEstricto(inc_mot, inc_ph_eh, umbral) ==
    inc_mot > umbral \/ inc_ph_eh > umbral

\* es_anaerobico = inc_mot >= umbral or inc_ph_eh >= umbral
EsAnaerobico(inc_mot, inc_ph_eh, umbral) ==
    inc_mot >= umbral \/ inc_ph_eh >= umbral

\* a plausible slip: the stricter table entry used as the default
UmbralesDePorDefectoPost(tipo) == DictGet(UMBRALES, tipo, UMBRALES["INFA-POSTANAEROBICA"])

\* UMBRALES.get(tipo_monitoreo, UMBRALES['INFA'])
UmbralesDe(tipo) == DictGet(UMBRALES, tipo, UMBRALES["INFA"])

\* REGULATORY_LIMITS.get(tipo_monitoreo, REGULATORY_LIMITS['INFA'])
LimitesDe(tipo) == DictGet(REGULATORY_LIMITS, tipo, REGULATORY_LIMITS["INFA"])

\* the dict returned for an empty station list by sedimento_extractor.py
DiagnosticoSinEstaciones ==
    [es_anaerobico |-> FALSE, incumplimientos_mot |-> 0,
     incumplimientos_ph_eh |-> 0, umbral_estaciones |-> 0,
     detalles |-> "Sin estaciones"]

\* the dict returned for an empty station list by sedimento.py
DiagnosticoSinEstacionesS ==
    [es_anaerobico |-> FALSE, incumplimientos_mot |-> 0,
     incumplimientos_ph_eh |-> 0, umbral_estaciones |-> 0,
     total_estaciones |-> 0]

\* SedimentoExtractor._determinar_estado_centro (sedimento_extractor.py)
DeterminarEstadoCentro(ests, p_mot, p_ph, tipo) ==
    LET umbrales == UmbralesDe(tipo)
        total_estaciones == Len(ests)
        umbral == UmbralIncumplimientos(total_estaciones)
        inc_mot == ContarMot(p_mot, umbrales)
        inc_ph_eh == ContarPhEh(p_ph, umbrales)
    IN  IF total_estaciones = 0 THEN DiagnosticoSinEstaciones
        ELSE [es_anaerobico |-> EsAnaerobico(inc_mot, inc_ph_eh, umbral),
              incumplimientos_mot |-> inc_mot,
              incumplimientos_ph_eh |-> inc_ph_eh,
              umbral_estaciones |-> umbral,
              total_estaciones |-> total_estaciones,
              tipo_monitoreo |-> tipo,
              umbrales_aplicados |-> umbrales]

\* SedimentoExtractor._diagnosticar_estado (sedimento.py)
DiagnosticarEstado(ests, p_mot, p_ph, tipo) ==
    LET umbrales == LimitesDe(tipo)
        total_estaciones == Len(ests)
        umbral == UmbralS(total_estaciones)
        inc_mot == ContarMot(p_mot, umbrales)
        inc_ph_eh == ContarPhEhS(p_ph, umbrales)
    IN  IF total_estaciones = 0 THEN DiagnosticoSinEstacionesS
        ELSE [es_anaerobico |-> EsAnaerobico(inc_mot, inc_ph_eh, umbral),
              incumplimientos_mot |-> inc_mot,
              incumplimientos_ph_eh |-> inc_ph_eh,
              umbral_estaciones |-> umbral,
              total_estaciones |-> total_estaciones,
              tipo_monitoreo |-> tipo,
              umbrales_aplicados |-> umbrales]

(***************************************************************************)
(* Inputs of the classifier specification.                                 *)
(***************************************************************************)
TiposMonitoreo == {"INFA", "INFA-POSTANAEROBICA", "CPS", None, "INTERNO"}

\* 9.00 (the INFA maximum itself) and 9.10
ValoresMot == {900, 910}

\* (pH, Eh) averages: both low, pH low only, Eh low only, one of them missing
ValoresPhEh == {<<700, 49>>, <<700, 50>>, <<710, 49>>, <<NoneNum, 49>>, <<700, NoneNum>>}

PromMot(cod, v) == [codigo_estacion |-> cod, mot_promedio |-> v]
PromPhEh(cod, pe) == [codigo_estacion |-> cod, ph_promedio |-> pe[1], eh_promedio |-> pe[2]]

ListaMot(vs) == [i \in 1..Len(vs) |-> PromMot(i, vs[i])]
ListaPhEh(ps) == [i \in 1..Len(ps) |-> PromPhEh(i, ps[i])]
ListaEstaciones(n) == [i \in 1..n |-> [codigo |-> i]]

\* the eight-station example: 10.0, 9.5, 9.1, 8.0, 8.0, 8.0, 7.0, 7.0
EjemploMot == <<1000, 950, 910, 800, 800, 800, 700, 700>>
\* eight stations, none above 9.0
EjemploMotBajo == <<900, 900, 850, 800, 800, 800, 700, 700>>
\* eight stations, each failing at most one of pH / Eh
EjemploPhEh == <<<<700, 50>>, <<700, 120>>, <<710, 49>>, <<710, -20>>,
                 <<750, 100>>, <<700, 50>>, <<710, 49>>, <<760, 90>>>>

\* lists whose lengths add up to at most MaxPromedios
EntradasGenerales ==
    UNION {UNION {[1..a -> ValoresMot] \X [1..b -> ValoresPhEh]
                   : b \in 0..(MaxPromedios - a)} : a \in 0..MaxPromedios}

InitGeneral ==
    \E e \in EntradasGenerales, n \in 0..MaxEstaciones :
        /\ estaciones = ListaEstaciones(n)
        /\ promedios_mot = ListaMot(e[1])
        /\ promedios_ph_redox = ListaPhEh(e[2])

\* many stations, few averages: the threshold above its floor of 3
InitUmbral ==
    \E n \in 0..MaxEstacionesUmbral, a \in 0..2 :
        \E vs \in [1..a -> ValoresMot] :
            /\ estaciones = ListaEstaciones(n)
            /\ promedios_mot = ListaMot(vs)
            /\ promedios_ph_redox = << >>

InitEjemplo ==
    /\ estaciones = ListaEstaciones(8)
    /\ promedios_mot \in {ListaMot(EjemploMot), ListaMot(EjemploMotBajo)}
    /\ promedios_ph_redox \in {<< >>, ListaPhEh(EjemploPhEh)}

InitClasif ==
    /\ fase = "entrada"
    /\ tipo_monitoreo \in TiposMonitoreo
    /\ diagnostico = [pendiente |-> TRUE]
    /\ diagnostico_s = [pendiente |-> TRUE]
    /\ (InitGeneral \/ InitUmbral \/ InitEjemplo)
    /\ textos = << >>
    /\ campo = None
    /\ resultado = [pendiente |-> TRUE]
    /\ documento = [pendiente |-> TRUE]
    /\ metadatos = [pendiente |-> TRUE]
    /\ SinOrquestador
    /\ SinFuncion

\* one call of the classifier of each source file on the same inputs
Clasificar ==
    /\ fase = "entrada"
    /\ fase' = "clasificado"
    /\ diagnostico' = DeterminarEstadoCentro(estaciones, promedios_mot,
                                             promedios_ph_redox, tipo_monitoreo)
    /\ diagnostico_s' = DiagnosticarEstado(estaciones, promedios_mot,
                                           promedios_ph_redox, tipo_monitoreo)
    /\ UNCHANGED <<estaciones, promedios_mot, promedios_ph_redox, tipo_monitoreo>>
    /\ UNCHANGED <<varsCascada, varsMeta, varsPipe, varsFuncion>>

NextClasif == Clasificar

SpecClasif == InitClasif /\ [][NextClasif]_vars

(***************************************************************************)
(* Texts and patterns.                                                     *)
(*                                                                         *)
(* A text (a file name stem or the text of a page) is the sequence of its  *)
(* recognisable fragments, left to right.  A fragment has a form, the      *)
(* label written before the value, and the value a capturing group would   *)
(* return.  A regular expression is the set of forms it matches under      *)
(* re.IGNORECASE, so re.search returns the value of the leftmost fragment  *)
(* whose form is in that set.  A page without fragments is an empty page.  *)
(* Matches that would span a page break of the joined text are not         *)
(* represented.                                                            *)
(***************************************************************************)
Fragmento(forma, valor) == [forma |-> forma, valor |-> valor]

\* config/extractor_config.py METADATA_PATTERNS, in priority order
METADATA_PATTERNS_EC ==
    [OT |-> << {"OT-n"},                       \* OT[:\s-]*(\d{3,5})
               {"OT-n", "O.T. n"},             \* O\.?T\.?[:\s-]*(\d{3,5})
               {"ORDEN TRABAJO n"} >>,         \* ORDEN[:\s]+TRABAJO[:\s]*(\d{3,5})
     CODIGO_CENTRO |->
            << {"Codigo Centro: n"},           \* [Cc][óo]digo\s+[Cc]entro[:\s]*(\d{6})
               {"Cod. Centro n"},              \* C[óo]d\.\s*Centro[:\s]*(\d{6})
               {"Codigo Centro: n", "Cod. Centro n", "Centro: n"},  \* Centro[:\s]+(\d{6})
               {"ID: n"} >>]                   \* ID[:\s]*(\d{6})

\* config/patterns.py METADATA_PATTERNS, in priority order
METADATA_PATTERNS ==
    [OT |-> << {"OT-n"}, {"OT-n", "O.T. n"}, {"ORDEN TRABAJO n"} >>,
     codigo_centro |->
            << {"Codigo Centro: n"},
               {"Cod. Centro n"},
               {"Codigo Centro: n", "Cod. Centro n", "Centro: n"} >>]

\* re.search(patron, texto, re.IGNORECASE | re.MULTILINE) followed by group(1)
RECURSIVE ReSearch(_, _)
ReSearch(patron, texto) ==
    IF texto = << >> THEN None
    ELSE IF Head(texto).forma \in patron THEN Head(texto).valor
    ELSE ReSearch(patron, Tail(texto))

\* "\n".join(textos)
RECURSIVE Join(_)
Join(ts) == IF ts = << >> THEN << >> ELSE Head(ts) \o Join(Tail(ts))

\* a plausible slip: the leftmost fragment any pattern matches, whatever its priority
RECURSIVE BuscarPorPosicion(_, _)
BuscarPorPosicion(texto, patrones) ==
    IF texto = << >> THEN None
    ELSE IF \E k \in 1..Len(patrones) : Head(texto).forma \in patrones[k]
         THEN Head(texto).valor
         ELSE BuscarPorPosicion(Tail(texto), patrones)

\* MetadataExtractor._search_with_patterns (core/metadata.py): the patterns in
\* priority order over one text
RECURSIVE SearchWithPatterns(_, _)
SearchWithPatterns(texto, patrones) ==
    IF patrones = << >> THEN None
    ELSE LET valor == ReSearch(Head(patrones), texto)
         IN  IF valor # None THEN valor
             ELSE SearchWithPatterns(texto, Tail(patrones))

\* MetadataExtractor._buscar_con_patrones (extractors/metadata_extractor.py)
RECURSIVE BuscarConPatrones(_, _)
BuscarConPatrones(texto, patrones) ==
    IF patrones = << >> THEN None
    ELSE LET valor == ReSearch(Head(patrones), texto)
         IN  IF valor # None THEN valor
             ELSE BuscarConPatrones(texto, Tail(patrones))

\* a plausible slip: the loops nested the other way round, patterns outside
RECURSIVE CascadaPorPatron(_, _, _, _, _)
CascadaPorPatron(ts, patrones, p, k, consultas) ==
    IF k > Len(patrones) THEN [valor |-> None, consultas |-> consultas]
    ELSE IF p > Len(ts) THEN CascadaPorPatron(ts, patrones, 1, k + 1, consultas)
    ELSE IF ts[p] = << >> THEN CascadaPorPatron(ts, patrones, p + 1, k, consultas)
    ELSE LET valor == ReSearch(patrones[k], ts[p])
             hechas == Append(consultas, <<p, k>>)
         IN  IF valor # None THEN [valor |-> valor, consultas |-> hechas]
             ELSE CascadaPorPatron(ts, patrones, p + 1, k, hechas)

\* the two loops of _extraer_en_todas_paginas from page p, pattern k on:
\* pages outside, patterns inside, return at the first match.  consultas lists
\* the (page, pattern) pairs handed to re.search so far.
RECURSIVE Cascada(_, _, _, _, _)
Cascada(ts, patrones, p, k, consultas) ==
    IF p > Len(ts) THEN [valor |-> None, consultas |-> consultas]
    ELSE IF ts[p] = << >> \/ k > Len(patrones)
         THEN Cascada(ts, patrones, p + 1, 1, consultas)
    ELSE LET valor == ReSearch(patrones[k], ts[p])
             hechas == Append(consultas, <<p, k>>)
         IN  IF valor # None THEN [valor |-> valor, consultas |-> hechas]
             ELSE Cascada(ts, patrones, p, k + 1, hechas)

\* MetadataExtractor._extraer_en_todas_paginas (extractors/metadata_extractor.py)
ExtraerEnTodasPaginas(ts, c) ==
    IF c \notin DOMAIN METADATA_PATTERNS_EC
    THEN [valor |-> None, consultas |-> << >>]
    ELSE Cascada(ts, METADATA_PATTERNS_EC[c], 1, 1, << >>)

(***************************************************************************)
(* Inputs of the pattern search specification.                             *)
(***************************************************************************)
\* the keys the functions are called with: two keys of extractor_config and
\* the lower-case key extraer_todos passes
Campos == {"OT", "CODIGO_CENTRO", "codigo_centro"}

FormasDe(c) ==
    IF c = "OT" THEN {"OT-n", "O.T. n", "ORDEN TRABAJO n", "ID: n"}
    ELSE {"Codigo Centro: n", "Cod. Centro n", "Centro: n", "ID: n"}

ValoresDe(c) == IF c = "OT" THEN {"1001", "2002"} ELSE {"100001", "200002"}

FragmentosDe(c) == {Fragmento(f, v) : f \in FormasDe(c), v \in ValoresDe(c)}

\* every sequence of exactly np pages holding at most nf fragments in total
RECURSIVE TextosPosibles(_, _, _)
TextosPosibles(A, np, nf) ==
    IF np = 0 THEN {<< >>}
    ELSE UNION {{<<pagina>> \o resto :
                    resto \in TextosPosibles(A, np - 1, nf - Len(pagina))}
                : pagina \in UNION {[1..m -> A] : m \in 0..nf}}

InitCascada ==
    /\ fase = "entrada"
    /\ campo \in Campos
    /\ \E np \in 0..MaxPaginas :
           textos \in TextosPosibles(FragmentosDe(campo), np, MaxFragmentos)
    /\ resultado = [pendiente |-> TRUE]
    /\ documento = [pendiente |-> TRUE]
    /\ metadatos = [pendiente |-> TRUE]
    /\ SinOrquestador
    /\ SinFuncion
    /\ estaciones = << >>
    /\ promedios_mot = << >>
    /\ promedios_ph_redox = << >>
    /\ tipo_monitoreo = None
    /\ diagnostico = [pendiente |-> TRUE]
    /\ diagnostico_s = [pendiente |-> TRUE]

\* one call of each search function on the same document
Buscar ==
    /\ fase = "entrada"
    /\ fase' = "buscado"
    /\ resultado' =
         [paginas |-> ExtraerEnTodasPaginas(textos, campo),
          buscar |-> IF campo \in DOMAIN METADATA_PATTERNS_EC
                     THEN BuscarConPatrones(Join(textos), METADATA_PATTERNS_EC[campo])
                     ELSE None,
          search |-> IF campo \in DOMAIN METADATA_PATTERNS
                     THEN SearchWithPatterns(Join(textos), METADATA_PATTERNS[campo])
                     ELSE None]
    /\ UNCHANGED <<textos, campo>>
    /\ UNCHANGED <<varsClasif, varsMeta, varsPipe, varsFuncion>>

NextCascada == Buscar

SpecCascada == InitCascada /\ [][NextCascada]_vars

(***************************************************************************)
(* Metadata extraction (extractors/metadata_extractor.py).                 *)
(*                                                                         *)
(* A document is the PDF file as the extractor sees it:                    *)
(*   nombre   the file name stem, a text                                   *)
(*   abre     whether the PDF library can open the file                    *)
(*   paginas  what PDFTextExtractor.extraer_todas_paginas returns, one     *)
(*            record per page: texto (a text), larga (the stripped text    *)
(*            has at least 50 characters) and tipo (what the monitoring    *)
(*            type patterns find on the page, already normalised)          *)
(*   ocr_estado  whether the OCR pass can run on page 1: "ok", or          *)
(*            "no_disponible" (pytesseract / pdf2image missing), or        *)
(*            "falla" (the conversion or Tesseract raises)                 *)
(*   ocr      the dict the OCR metadata pass parses from page 1 when it    *)
(*            runs; it holds only the fields it found                      *)
(* The record tracks codigo_ot, codigo_centro and tipo_monitoreo; the      *)
(* other keys of the dict are filled by cascades of the same shape.        *)
(***************************************************************************)
DictVacio == [k \in {} |-> None]

\* MetadataExtractor._inicializar_metadatos
InicializarMetadatos(doc) ==
    [nombre_archivo |-> doc.nombre, codigo_ot |-> None,
     codigo_centro |-> None, tipo_monitoreo |-> None]

\* MetadataExtractor._extraer_ot_from_filename: the OT patterns in priority
\* order over the file name stem
RECURSIVE OtDesdePatrones(_, _)
OtDesdePatrones(nombre, patrones) ==
    IF patrones = << >> THEN None
    ELSE LET ot == ReSearch(Head(patrones), nombre)
         IN  IF ot # None THEN ot ELSE OtDesdePatrones(nombre, Tail(patrones))

ExtraerOtFromFilename(nombre) == OtDesdePatrones(nombre, METADATA_PATTERNS_EC.OT)

\* MetadataExtractor._extraer_todas_las_paginas; a file that cannot be opened
\* yields the empty list (PDFTextExtractor._extraer_con_pdfplumber)
ExtraerTodasLasPaginas(doc) == IF doc.abre THEN doc.paginas ELSE << >>

\* a raised exception, as a value
Excepcion == [excepcion |-> TRUE]

\* a plausible slip: the OCR failure not caught
ExtraerConOcrSinCaptura(doc) ==
    IF doc.ocr_estado = "ok" THEN doc.ocr ELSE Excepcion

\* MetadataExtractor._extraer_con_ocr: OCRMetadataExtractor returns {} when
\* _extraer_texto_ocr gives None (its except clauses), and the ImportError /
\* Exception clauses here return {} as well
ExtraerConOcr(doc) ==
    IF doc.ocr_estado = "ok" THEN doc.ocr ELSE DictVacio

\* for key, value in metadatos_ocr.items(): if value: metadatos[key] = value
AplicarOcr(m, ocr) ==
    [k \in DOMAIN m |-> IF k \in DOMAIN ocr /\ ocr[k] # None THEN ocr[k] ELSE m[k]]

\* usar_ocr: some value of the OCR dict was taken over
UsarOcr(ocr) == \E k \in DOMAIN ocr : ocr[k] # None

\* a plausible slip: the page text searched first, the file name as fallback
OtDelTextoPrimero(ot_nombre, texto_completo) ==
    LET ot_texto == BuscarConPatrones(texto_completo, METADATA_PATTERNS_EC.OT)
    IN  IF ot_texto # None THEN ot_texto ELSE ot_nombre

\* step 4 of extraer_todos: the joined page text is searched for the OT only
\* if the file name gave none
OtFinal(ot_nombre, texto_completo) ==
    IF ot_nombre = None
    THEN BuscarConPatrones(texto_completo, METADATA_PATTERNS_EC.OT)
    ELSE ot_nombre

\* MetadataExtractor._extraer_tipo_monitoreo_todas_paginas: the first page
\* with a match decides
RECURSIVE ExtraerTipoMonitoreo(_)
ExtraerTipoMonitoreo(pags) ==
    IF pags = << >> THEN None
    ELSE IF Head(pags).tipo # None THEN Head(pags).tipo
    ELSE ExtraerTipoMonitoreo(Tail(pags))

\* MetadataExtractor.extraer_todos.  An empty page list makes
\* textos_por_pagina[0] raise; the except clause (lines 116-118) returns the
\* record as filled when the exception was raised, that is with the file
\* name's OT only.
ExtraerTodos(doc) ==
    LET m0 == [InicializarMetadatos(doc) EXCEPT
                  !.codigo_ot = ExtraerOtFromFilename(doc.nombre)]
        pags == ExtraerTodasLasPaginas(doc)
        ts == [i \in 1..Len(pags) |-> pags[i].texto]
        ocr == IF ~pags[1].larga THEN ExtraerConOcr(doc) ELSE DictVacio
        m1 == AplicarOcr(m0, ocr)
        m2 == [m1 EXCEPT !.codigo_ot = OtFinal(m1.codigo_ot, Join(ts))]
    IN  IF pags = << >> THEN m0
        ELSE IF ocr = Excepcion THEN m0
        ELSE IF UsarOcr(ocr) THEN m2
        ELSE [m2 EXCEPT
                 !.codigo_centro = ExtraerEnTodasPaginas(ts, "codigo_centro").valor,
                 !.tipo_monitoreo = ExtraerTipoMonitoreo(pags)]

(***************************************************************************)
(* Inputs of the metadata specification.                                   *)
(***************************************************************************)
Pagina(texto, larga, tipo) == [texto |-> texto, larga |-> larga, tipo |-> tipo]

\* file names: no OT, or one or two fragments an OT pattern matches
NombresPosibles ==
    {<< >>} \cup
    {<<Fragmento(f, "1001")>> : f \in {"OT-n", "O.T. n", "ORDEN TRABAJO n"}} \cup
    {<<Fragmento("O.T. n", "1001"), Fragmento("OT-n", "1002")>>}

\* page texts: nothing recognisable, an OT fragment, or a site code
TextosDePagina ==
    {<< >>, <<Fragmento("Codigo Centro: n", "100001")>>} \cup
    {<<Fragmento(f, "2002")>> : f \in {"OT-n", "ORDEN TRABAJO n"}}

PaginasPosibles(primera) ==
    {Pagina(t, l, tp) : t \in TextosDePagina,
                        l \in IF primera THEN BOOLEAN ELSE {TRUE},
                        tp \in {None, "INFA-POSTANAEROBICA"}}

\* the first page of a document may be short; the length of the others is
\* never read
RECURSIVE PaginasDe(_, _)
PaginasDe(n, primera) ==
    IF n = 0 THEN {<< >>}
    ELSE {<<pg>> \o resto : pg \in PaginasPosibles(primera),
                            resto \in PaginasDe(n - 1, FALSE)}

\* what the OCR pass can return: nothing, or the fields it parses
OcrPosibles ==
    {DictVacio,
     [tipo_monitoreo |-> "INFA"],
     [codigo_centro |-> "200002"],
     [codigo_centro |-> "200002", tipo_monitoreo |-> "CPS"]}

\* the OCR pass runs and parses one of the dicts, or cannot run
OcrDePrueba ==
    {[estado |-> "ok", ocr |-> o] : o \in OcrPosibles} \cup
    {[estado |-> e, ocr |-> DictVacio] : e \in {"no_disponible", "falla"}}

\* the documents of at most max_paginas pages
DocumentosMeta(max_paginas) ==
    {[nombre |-> n, abre |-> FALSE, paginas |-> << >>,
      ocr_estado |-> "falla", ocr |-> DictVacio]
        : n \in NombresPosibles} \cup
    UNION {{[nombre |-> n, abre |-> TRUE, paginas |-> pg,
             ocr_estado |-> o.estado, ocr |-> o.ocr]
              : n \in NombresPosibles, pg \in PaginasDe(np, TRUE), o \in OcrDePrueba}
           : np \in 0..max_paginas}

InitMeta ==
    /\ fase = "entrada"
    /\ documento \in DocumentosMeta(MaxPaginasDoc)
    /\ metadatos = [pendiente |-> TRUE]
    /\ SinOrquestador
    /\ SinFuncion
    /\ textos = << >>
    /\ campo = None
    /\ resultado = [pendiente |-> TRUE]
    /\ estaciones = << >>
    /\ promedios_mot = << >>
    /\ promedios_ph_redox = << >>
    /\ tipo_monitoreo = None
    /\ diagnostico = [pendiente |-> TRUE]
    /\ diagnostico_s = [pendiente |-> TRUE]

\* one call of MetadataExtractor.extraer_todos
ExtraerMetadatos ==
    /\ fase = "entrada"
    /\ fase' = "extraido"
    /\ metadatos' = ExtraerTodos(documento)
    /\ UNCHANGED documento
    /\ UNCHANGED <<varsClasif, varsCascada, varsPipe, varsFuncion>>

NextMeta == ExtraerMetadatos

SpecMeta == InitMeta /\ [][NextMeta]_vars

(***************************************************************************)
(* The orchestrator (main.py, ProcessingOrchestrator).                     *)
(*                                                                         *)
(* A document of the pipeline adds to the metadata document:               *)
(*   tipo_nombre     the report type the file name's keywords give, None   *)
(*                   when it has none                                      *)
(*   tipo_contenido  the report type the keyword scores of the first       *)
(*                   pages give (SEDIMENTO when all scores are 0)          *)
(*   sedimento       what steps 1 to 6 of SedimentoExtractor.extraer get   *)
(*                   from the text: station list, replicate measurements   *)
(*                   and per-station averages                              *)
(* The database is the set of committed rows; every insert commits on its  *)
(* own (config/database.py, insert_with_identity).                         *)
(***************************************************************************)
CENTRO_PREFIX == "CENS_"

Fila(tabla, ot, clave, n) == [tabla |-> tabla, ot |-> ot, clave |-> clave, n |-> n]

\* a plausible slip: the missing code not checked
OtFaltanteNoVerificado(m) == FALSE

\* main.py line 93: if not metadatos.get('codigo_ot')
OtFaltante(m) == m.codigo_ot = None

\* ProcessingOrchestrator._detectar_tipo_informe: file name keywords first,
\* then the keyword scores of the content; SEDIMENTO when the file cannot be
\* opened
DetectarTipoInforme(doc) ==
    IF doc.tipo_nombre # None THEN doc.tipo_nombre
    ELSE IF doc.abre THEN doc.tipo_contenido
    ELSE "SEDIMENTO"

\* a plausible slip: the extractor going on without the text
ExtraccionNuncaFalla(doc) == FALSE

\* SedimentoExtractor.extraer raises: step 1, _extraer_texto_completo, opens
\* the file with pdfplumber outside any handler of its own
ExtraccionFalla(doc) == ~doc.abre

\* SedimentoExtractor.extraer, steps 7 and 8, on the lists of steps 1 to 6
Extraer(doc, m) ==
    LET sed == doc.sedimento
        diag == DeterminarEstadoCentro(sed.estaciones, sed.promedios_mot,
                                       sed.promedios_ph_redox, m.tipo_monitoreo)
    IN  [metadatos |-> [estado_anaerobico |-> diag.es_anaerobico] @@ m,
         estaciones |-> sed.estaciones,
         mediciones_mot |-> sed.mediciones_mot,
         mediciones_ph_redox |-> sed.mediciones_ph_redox,
         diagnostico |-> diag]

\* DataValidator.validar_mot / validar_ph / validar_redox: the hard ranges
ValidarMot(valor) == ~(valor < 0 \/ valor > 10000)
ValidarPh(valor) == ~(valor < 0 \/ valor > 1400)
ValidarRedox(valor) == ~(valor < -500 \/ valor > 500)

\* RANGOS_VALIDACION['MOT_WARNING'], in hundredths
MOT_WARNING == 5000

\* RANGOS_VALIDACION['PH_MARINO'], in hundredths
PH_MARINO == <<600, 850>>

\* validar_mot returns (True, message): a warning
AvisoMot(valor) == ValidarMot(valor) /\ valor > MOT_WARNING

\* validar_ph returns (True, message): a warning
AvisoPh(valor) == ValidarPh(valor) /\ (valor < PH_MARINO[1] \/ valor > PH_MARINO[2])

\* validar_mediciones_mot and validar_mediciones_ph_redox report something,
\* an error or a warning
ReportaIncidencias(data) ==
    \/ \E i \in 1..Len(data.mediciones_mot) :
           LET valor == data.mediciones_mot[i].mot_porcentaje
           IN  ~ValidarMot(valor) \/ AvisoMot(valor)
    \/ \E i \in 1..Len(data.mediciones_ph_redox) :
           LET med == data.mediciones_ph_redox[i]
           IN  \/ med.ph # NoneNum /\ (~ValidarPh(med.ph) \/ AvisoPh(med.ph))
               \/ med.eh_mv # NoneNum /\ ~ValidarRedox(med.eh_mv)

\* ProcessingOrchestrator._validar_datos_sedimento
ValidarDatosSedimento(data) ==
    /\ data.metadatos.codigo_ot # None
    /\ \A i \in 1..Len(data.mediciones_mot) :
           ValidarMot(data.mediciones_mot[i].mot_porcentaje)
    /\ \A i \in 1..Len(data.mediciones_ph_redox) :
           LET med == data.mediciones_ph_redox[i]
           IN  /\ med.ph # NoneNum => ValidarPh(med.ph)
               /\ med.eh_mv # NoneNum => ValidarRedox(med.eh_mv)

\* the site code the order is filed under (main.py lines 319-328)
CodigoCentro(m) ==
    IF m.codigo_centro = None THEN CENTRO_PREFIX \o m.codigo_ot ELSE m.codigo_centro

\* _load_sedimento_data, the two measurement loops: one row per measurement
\* whose station code is a key of estacion_ids (cods), the others are skipped
FilasDeMediciones(tabla, ot, cods, meds) ==
    LET idx == {i \in 1..Len(meds) : meds[i].codigo_estacion \in cods}
        F[i \in 0..Len(meds)] ==
            IF i = 0 THEN << >>
            ELSE IF i \in idx
                 THEN Append(F[i - 1], Fila(tabla, ot, meds[i].codigo_estacion, i))
                 ELSE F[i - 1]
    IN  F[Len(meds)]

\* the rows _load_to_database and _load_sedimento_data insert, in order; a
\* measurement whose station has no station row is skipped
Escrituras(data, base) ==
    LET m == data.metadatos
        ot == m.codigo_ot
        centro == CodigoCentro(m)
        cods == {data.estaciones[i].codigo : i \in 1..Len(data.estaciones)}
    IN  (IF Fila("centros", None, centro, 0) \in base THEN << >>
         ELSE <<Fila("centros", None, centro, 0)>>)
        \o <<Fila("ordenes_trabajo", ot, ot, IF m.requiere_revision THEN 1 ELSE 0)>>
        \o (IF data.mediciones_mot # << >> \/ data.mediciones_ph_redox # << >>
            THEN [i \in 1..Len(data.estaciones) |->
                     Fila("sedimento_estaciones", ot, data.estaciones[i].codigo, i)]
                 \o FilasDeMediciones("sedimento_materia_organica", ot, cods,
                                      data.mediciones_mot)
                 \o FilasDeMediciones("sedimento_ph_redox", ot, cods,
                                      data.mediciones_ph_redox)
            ELSE << >>)

\* SELECT ot_id FROM ordenes_trabajo WHERE codigo_ot = ?
OtExiste(base, ot) == \E f \in base : f.tabla = "ordenes_trabajo" /\ f.ot = ot

\* ProcessingOrchestrator._load_to_database.  falla is the database
\* operation that raises: 0 none, 1 the SELECT, k + 1 the k-th insert.  The
\* inserts before it stay committed.
LoadToDatabase(data, base, falla) ==
    LET esc == Escrituras(data, base)
        hechas == IF falla = 0 THEN Len(esc) ELSE falla - 2
    IN  IF falla = 1 THEN [success |-> FALSE, db |-> base]
        ELSE IF OtExiste(base, data.metadatos.codigo_ot)
        THEN [success |-> FALSE, db |-> base]
        ELSE [success |-> falla = 0,
              db |-> base \cup {esc[i] : i \in 1..hechas}]

\* the database operations one load can fail at
FallasPosibles(data, base) ==
    IF OtExiste(base, data.metadatos.codigo_ot) THEN 0..1
    ELSE 0..(Len(Escrituras(data, base)) + 1)

\* a plausible slip: the flag not consulted
SeCargaSiempre(dry) == TRUE

\* if not self.dry_run: the load runs
SeCarga(dry) == ~dry

\* ProcessingOrchestrator.process_single_pdf on one file: the steps it runs,
\* whether the file counts as exitoso or fallido, and the database after it.
\* A file the PDF library cannot open makes the sediment extractor raise; the
\* except clause counts it as failed.
ProcessSinglePdfDe(doc, dry, base, falla) ==
    LET m0 == ExtraerTodos(doc)
        m == [tipo_informe |-> DetectarTipoInforme(doc),
              requiere_revision |-> FALSE] @@ m0
        data0 == Extraer(doc, m)
        data == [data0 EXCEPT !.metadatos.requiere_revision =
                                  ~ValidarDatosSedimento(data0)]
        carga == LoadToDatabase(data, base, falla)
        Fin(pasos, exito, base2, revision) ==
            [codigo_ot |-> m0.codigo_ot, pasos |-> pasos, exito |-> exito, db |-> base2,
             requiere_revision |-> revision]
    IN  IF OtFaltante(m0) THEN Fin(<<"metadatos">>, FALSE, base, FALSE)
        ELSE IF m.tipo_informe # "SEDIMENTO"
        THEN Fin(<<"metadatos", "tipo_informe">>, FALSE, base, FALSE)
        ELSE IF ExtraccionFalla(doc)
        THEN Fin(<<"metadatos", "tipo_informe", "extraccion">>, FALSE, base, FALSE)
        ELSE IF ~SeCarga(dry)
        THEN Fin(<<"metadatos", "tipo_informe", "extraccion", "clasificacion",
                   "validacion">>, TRUE, base, data.metadatos.requiere_revision)
        ELSE Fin(<<"metadatos", "tipo_informe", "extraccion", "clasificacion",
                   "validacion", "carga">>, carga.success, carga.db,
                 data.metadatos.requiere_revision)

\* the failures to enumerate for a file: those of the load when it is reached
FallasDe(doc, dry, base) ==
    LET m0 == ExtraerTodos(doc)
        m == [tipo_informe |-> DetectarTipoInforme(doc),
              requiere_revision |-> FALSE] @@ m0
    IN  IF OtFaltante(m0) \/ m.tipo_informe # "SEDIMENTO" \/ ExtraccionFalla(doc)
           \/ ~SeCarga(dry)
        THEN {0}
        ELSE FallasPosibles(Extraer(doc, m), base)

(***************************************************************************)
(* Inputs of the pipeline specification.                                   *)
(***************************************************************************)
Medicion(cod, v) == [codigo_estacion |-> cod, mot_porcentaje |-> v]
MedicionPh(cod, ph, eh) == [codigo_estacion |-> cod, ph |-> ph, eh_mv |-> eh]

\* nothing extracted, or one station with one replicate of each kind, the
\* organic matter at 9.5 % or at 60 % (above MOT_WARNING)
Sedimentos ==
    {[estaciones |-> << >>, mediciones_mot |-> << >>, mediciones_ph_redox |-> << >>,
      promedios_mot |-> << >>, promedios_ph_redox |-> << >>],
     [estaciones |-> <<[codigo |-> "E1"]>>,
      mediciones_mot |-> <<Medicion("E1", 6000)>>,
      mediciones_ph_redox |-> <<MedicionPh("E1", 700, 40)>>,
      promedios_mot |-> <<[codigo_estacion |-> "E1", mot_promedio |-> 6000]>>,
      promedios_ph_redox |-> <<[codigo_estacion |-> "E1", ph_promedio |-> 700,
                                eh_promedio |-> 40]>>],
     [estaciones |-> <<[codigo |-> "E1"]>>,
      mediciones_mot |-> <<Medicion("E1", 950)>>,
      mediciones_ph_redox |-> <<MedicionPh("E1", 700, 40)>>,
      promedios_mot |-> <<[codigo_estacion |-> "E1", mot_promedio |-> 950]>>,
      promedios_ph_redox |-> <<[codigo_estacion |-> "E1", ph_promedio |-> 700,
                                eh_promedio |-> 40]>>]}

NombresPipeline ==
    {<< >>, <<Fragmento("OT-n", "1001")>>, <<Fragmento("OT-n", "1002")>>}

\* one page: long without or with an OT, or short with an OCR result
ContenidosPipeline ==
    {[paginas |-> <<Pagina(<< >>, TRUE, None)>>, ocr |-> DictVacio],
     [paginas |-> <<Pagina(<<Fragmento("OT-n", "2002")>>, TRUE, "INFA-POSTANAEROBICA")>>,
      ocr |-> DictVacio],
     [paginas |-> <<Pagina(<< >>, FALSE, None)>>,
      ocr |-> [codigo_centro |-> "200002", tipo_monitoreo |-> "CPS"]]}

TiposInforme == {"SEDIMENTO", "OXIGENO", "VISUAL"}

\* files that cannot be opened and files that can; what is never read is kept
\* fixed: the sediment tables of a report of another type, and the content
\* keywords of a file whose name gives the type
Documentos ==
    {[nombre |-> n, abre |-> FALSE, paginas |-> << >>,
      ocr_estado |-> "falla", ocr |-> DictVacio,
      tipo_nombre |-> tn, tipo_contenido |-> "SEDIMENTO",
      sedimento |-> CHOOSE x \in Sedimentos : x.estaciones = << >>]
        : n \in NombresPipeline, tn \in {None, "OXIGENO"}} \cup
    {d \in {[nombre |-> n, abre |-> TRUE, paginas |-> c.paginas,
              ocr_estado |-> "ok", ocr |-> c.ocr,
              tipo_nombre |-> tn, tipo_contenido |-> tc, sedimento |-> x]
                : n \in NombresPipeline, c \in ContenidosPipeline,
                  tn \in {None, "OXIGENO"}, tc \in {"SEDIMENTO", "VISUAL"},
                  x \in Sedimentos} :
        /\ DetectarTipoInforme(d) = "SEDIMENTO" \/ d.sedimento.estaciones = << >>
        /\ d.tipo_nombre = None \/ d.tipo_contenido = "SEDIMENTO"}

Init ==
    /\ fase = "pipeline"
    /\ SinFuncion
    /\ dry_run \in BOOLEAN
    /\ stats = [total |-> 0, exitosos |-> 0, fallidos |-> 0, parciales |-> 0]
    /\ db = {}
    /\ ultimo = [pendiente |-> TRUE]
    /\ por_procesar = 0
    /\ documento = [pendiente |-> TRUE]
    /\ metadatos = [pendiente |-> TRUE]
    /\ textos = << >>
    /\ campo = None
    /\ resultado = [pendiente |-> TRUE]
    /\ estaciones = << >>
    /\ promedios_mot = << >>
    /\ promedios_ph_redox = << >>
    /\ tipo_monitoreo = None
    /\ diagnostico = [pendiente |-> TRUE]
    /\ diagnostico_s = [pendiente |-> TRUE]

\* a plausible slip: a failed file is not counted
ContarSoloExitos(st, exito) ==
    IF exito THEN [st EXCEPT !.exitosos = @ + 1] ELSE st

\* self.stats['exitosos'] += 1 or self.stats['fallidos'] += 1, the one
\* increment on the path process_single_pdf takes
Contar(st, exito) ==
    IF exito THEN [st EXCEPT !.exitosos = @ + 1]
    ELSE [st EXCEPT !.fallidos = @ + 1]

\* the orchestrator main() has just created: nothing counted, no call made
Nuevo ==
    /\ fase = "pipeline"
    /\ stats.total = 0
    /\ ultimo = [pendiente |-> TRUE]

\* ProcessingOrchestrator.process_directory up to its loop: total is the
\* number of files found; with none it returns at once.  main() calls it on
\* a new orchestrator.
ProcessDirectory ==
    /\ Nuevo
    /\ \E n \in 0..MaxDocumentos :
          /\ stats' = [stats EXCEPT !.total = n]
          /\ por_procesar' = n
          /\ fase' = IF n = 0 THEN "terminado" ELSE "pipeline"
    /\ UNCHANGED <<dry_run, db, ultimo>>
    /\ UNCHANGED <<varsClasif, varsCascada, varsMeta, varsFuncion>>

\* one call of ProcessingOrchestrator.process_single_pdf, from the loop of
\* process_directory or from main() with --single-file.  The call catches
\* every Exception itself, so the except clause of the loop is never entered.
ProcessSinglePdf ==
    /\ fase = "pipeline"
    /\ por_procesar > 0 \/ Nuevo
    /\ \E doc \in Documentos :
       \E falla \in FallasDe(doc, dry_run, db) :
          LET r == ProcessSinglePdfDe(doc, dry_run, db, falla)
          IN  /\ stats' = Contar(stats, r.exito)
              /\ db' = r.db
              /\ ultimo' = [doc |-> doc, codigo_ot |-> r.codigo_ot,
                            pasos |-> r.pasos, exito |-> r.exito,
                            requiere_revision |-> r.requiere_revision]
    /\ IF por_procesar > 0
       THEN por_procesar' = por_procesar - 1 /\ fase' = fase
       ELSE por_procesar' = por_procesar /\ fase' = "archivo"
    /\ UNCHANGED dry_run
    /\ UNCHANGED <<varsClasif, varsCascada, varsMeta, varsFuncion>>

\* the end of process_directory: the loop is over, _print_summary reports
PrintSummary ==
    /\ fase = "pipeline"
    /\ stats.total > 0
    /\ por_procesar = 0
    /\ fase' = "terminado"
    /\ UNCHANGED <<varsPipe, varsClasif, varsCascada, varsMeta, varsFuncion>>

\* the step is a call of process_single_pdf: one file less to process in the
\* loop, or the single file of main() done
EsLlamada ==
    /\ fase = "pipeline"
    /\ por_procesar' = por_procesar - 1 \/ fase' = "archivo"

Next == ProcessDirectory \/ ProcessSinglePdf \/ PrintSummary

Spec == Init /\ [][Next]_vars

(***************************************************************************)
(* Date normalisation.  A Python str is the sequence of its characters.    *)
(*   extractors/metadata_extractor.py   _normalizar_fecha                  *)
(*   utils/ocr_metadata_extractor.py    _normalizar_fecha                  *)
(*   core/metadata.py                   _normalize_date                    *)
(***************************************************************************)
Digitos == <<"0", "1", "2", "3", "4", "5", "6", "7", "8", "9">>

EsDigito(c) == \E i \in 1..10 : Digitos[i] = c

ValorDigito(c) == (CHOOSE i \in 1..10 : Digitos[i] = c) - 1

\* str.replace(c, por) for a one-character c
RECURSIVE Replace(_, _, _)
Replace(str, c, por) ==
    IF str = << >> THEN << >>
    ELSE (IF Head(str) = c THEN por ELSE <<Head(str)>>) \o Replace(Tail(str), c, por)

\* re.split(r'[/-]', str)
RECURSIVE ReSplit(_, _)
ReSplit(str, parte) ==
    IF str = << >> THEN <<parte>>
    ELSE IF Head(str) \in {"/", "-"}
         THEN <<parte>> \o ReSplit(Tail(str), << >>)
         ELSE ReSplit(Tail(str), Append(parte, Head(str)))

\* str.strip() of blanks, as int() does before it parses
RECURSIVE LStrip(_)
LStrip(str) ==
    IF str # << >> /\ Head(str) = " " THEN LStrip(Tail(str)) ELSE str

RECURSIVE RStrip(_)
RStrip(str) ==
    IF str # << >> /\ str[Len(str)] = " "
    THEN RStrip(SubSeq(str, 1, Len(str) - 1)) ELSE str

\* int(str) succeeds: after stripping, a non-empty run of digits
IntValido(str) ==
    LET t == RStrip(LStrip(str))
    IN  t # << >> /\ \A i \in 1..Len(t) : EsDigito(t[i])

RECURSIVE IntDe(_)
IntDe(t) ==
    IF t = << >> THEN 0
    ELSE 10 * IntDe(SubSeq(t, 1, Len(t) - 1)) + ValorDigito(t[Len(t)])

\* int(str), for a str the call accepts
IntPy(str) == IntDe(RStrip(LStrip(str)))

\* str.zfill(2)
RECURSIVE Zfill(_, _)
Zfill(str, ancho) == IF Len(str) >= ancho THEN str ELSE Zfill(<<"0">> \o str, ancho)

\* a plausible slip: the year not validated
FechaEnRangoSinAnio(dia, mes, anio) ==
    /\ 1 <= IntPy(dia) /\ IntPy(dia) <= 31
    /\ 1 <= IntPy(mes) /\ IntPy(mes) <= 12

\* 1 <= int(dia) <= 31 and 1 <= int(mes) <= 12 and 1900 <= int(año) <= 2100
FechaEnRango(dia, mes, anio) ==
    /\ 1 <= IntPy(dia) /\ IntPy(dia) <= 31
    /\ 1 <= IntPy(mes) /\ IntPy(mes) <= 12
    /\ 1900 <= IntPy(anio) /\ IntPy(anio) <= 2100

\* the three parts can be validated without int() raising
PartesValidas(partes) ==
    /\ Len(partes) = 3
    /\ \A i \in 1..3 : IntValido(partes[i])

\* metadata_extractor.py: the parts are validated as they are and padded in
\* the result
NormalizarFecha(fecha_str) ==
    LET partes == ReSplit(fecha_str, << >>)
    IN  IF fecha_str = << >> THEN None
        ELSE IF PartesValidas(partes) /\ FechaEnRango(partes[1], partes[2], partes[3])
        THEN partes[3] \o <<"-">> \o Zfill(partes[2], 2) \o <<"-">> \o Zfill(partes[1], 2)
        ELSE None

\* the parts padded before the validation, as the other two files do
NormalizarPartes(limpio) ==
    LET partes == ReSplit(limpio, << >>)
        dia == Zfill(partes[1], 2)
        mes == Zfill(partes[2], 2)
    IN  IF Len(partes) = 3 /\ IntValido(dia) /\ IntValido(mes) /\ IntValido(partes[3])
           /\ FechaEnRango(dia, mes, partes[3])
        THEN partes[3] \o <<"-">> \o mes \o <<"-">> \o dia
        ELSE None

\* ocr_metadata_extractor.py: blanks and commas removed, dots turned into
\* slashes
NormalizarFechaOcr(fecha_str) ==
    NormalizarPartes(Replace(Replace(Replace(fecha_str, " ", << >>), ",", << >>),
                             ".", <<"/">>))

\* core/metadata.py: blanks and commas removed
NormalizeDate(fecha_str) ==
    NormalizarPartes(Replace(Replace(fecha_str, " ", << >>), ",", << >>))

(***************************************************************************)
(* Inputs of the date specification: day, month and year written with a    *)
(* minimum width, two separators, and possibly a blank before the day.     *)
(***************************************************************************)
RECURSIVE Decimal(_)
Decimal(n) == IF n < 10 THEN <<Digitos[n + 1]>>
              ELSE Append(Decimal(n \div 10), Digitos[(n % 10) + 1])

Escribir(n, ancho) == Zfill(Decimal(n), ancho)

DiasDePrueba == {0, 1, 9, 10, 31, 32, 99}
MesesDePrueba == {0, 1, 9, 12, 13, 99}
AniosDePrueba == {0, 1899, 1900, 2024, 2100, 2101, 9999}
SeparadoresDePrueba == {"/", "-", "."}

\* DD/MM/YYYY as the date patterns capture it, and the looser D/M/YYYY
FechasDePrueba ==
    {[dia |-> d, mes |-> m, anio |-> a, sep1 |-> s1, sep2 |-> s2,
      ancho |-> w, blanco |-> b,
      fecha_str |-> (IF b THEN <<" ">> ELSE << >>) \o Escribir(d, w) \o <<s1>>
                       \o Escribir(m, w) \o <<s2>> \o Escribir(a, 4)]
        : d \in DiasDePrueba, m \in MesesDePrueba, a \in AniosDePrueba,
          s1 \in SeparadoresDePrueba, s2 \in SeparadoresDePrueba,
          w \in {1, 2}, b \in BOOLEAN}

InitFecha ==
    /\ fase = "entrada"
    /\ argumento \in FechasDePrueba
    /\ retorno = [pendiente |-> TRUE]
    /\ SinClasif /\ SinCascada /\ SinMeta /\ SinOrquestador

\* one call of each of the three normalisation functions on the same string
NormalizarFechas ==
    /\ fase = "entrada"
    /\ fase' = "normalizada"
    /\ retorno' = [normalizar_fecha |-> NormalizarFecha(argumento.fecha_str),
                   normalizar_fecha_ocr |-> NormalizarFechaOcr(argumento.fecha_str),
                   normalize_date |-> NormalizeDate(argumento.fecha_str)]
    /\ UNCHANGED argumento
    /\ UNCHANGED <<varsClasif, varsCascada, varsMeta, varsPipe>>

NextFecha == NormalizarFechas

SpecFecha == InitFecha /\ [][NextFecha]_vars

(***************************************************************************)
(* Monitoring type normalisation (extractors/metadata_extractor.py).       *)
(* The text a monitoring type pattern captures is a sequence of words; the *)
(* tables give each word's upper-case form and the keywords that form      *)
(* contains as substrings.                                                 *)
(***************************************************************************)
Palabras == {"INFA", "infa", "CPS", "post-anaerobica", "POSTANAEROBICA", "Interno", " "}

\* str.upper()
Upper(palabra) ==
    CASE palabra = "infa" -> "INFA"
      [] palabra = "post-anaerobica" -> "POST-ANAEROBICA"
      [] palabra = "Interno" -> "INTERNO"
      [] OTHER -> palabra

\* clave in palabra, for an upper-case palabra
EnPalabra(clave, palabra) ==
    CASE palabra = "INFA" -> clave = "INFA"
      [] palabra = "CPS" -> clave = "CPS"
      [] palabra = "POST-ANAEROBICA" -> clave = "POST"
      [] palabra = "POSTANAEROBICA" -> clave \in {"POST", "POSTANAER"}
      [] OTHER -> FALSE

\* clave in valor.upper()
EnValorUpper(clave, valor) ==
    \E i \in 1..Len(valor) : EnPalabra(clave, Upper(valor[i]))

\* the str the words spell
RECURSIVE TextoDe(_)
TextoDe(valor) ==
    IF valor = << >> THEN "" ELSE Head(valor) \o TextoDe(Tail(valor))

\* str.strip()
StripPalabras(valor) == RStrip(LStrip(valor))

\* MetadataExtractor._normalizar_tipo_monitoreo
NormalizarTipoMonitoreo(valor) ==
    IF valor = << >> THEN None
    ELSE IF EnValorUpper("POST", valor) \/ EnValorUpper("POSTANAER", valor)
    THEN "INFA-POSTANAEROBICA"
    ELSE IF EnValorUpper("INFA", valor) THEN "INFA"
    ELSE IF EnValorUpper("CPS", valor) THEN "CPS"
    ELSE TextoDe(StripPalabras(valor))

\* the captured texts: at most MaxPalabras words
ValoresCapturados == UNION {[1..n -> Palabras] : n \in 0..MaxPalabras}

InitTipo ==
    /\ fase = "entrada"
    /\ argumento \in {[capturado |-> v] : v \in ValoresCapturados}
    /\ retorno = [pendiente |-> TRUE]
    /\ SinClasif /\ SinCascada /\ SinMeta /\ SinOrquestador

\* _extraer_tipo_monitoreo_todas_paginas on a match: the captured group is
\* stripped, normalised and returned, and extraer_todos stores it in the record
NormalizarTipo ==
    /\ fase = "entrada"
    /\ fase' = "tipo"
    /\ retorno' = [tipo_monitoreo |->
                      NormalizarTipoMonitoreo(StripPalabras(argumento.capturado))]
    /\ UNCHANGED argumento
    /\ UNCHANGED <<varsClasif, varsCascada, varsMeta, varsPipe>>

NextTipo == NormalizarTipo

SpecTipo == InitTipo /\ [][NextTipo]_vars

(***************************************************************************)
(* Text acquisition (utils/pdf_text_extractor.py).                         *)
(*                                                                         *)
(* A text is known by the method that produced it, its length (bruto) and  *)
(* the length of its strip() (neto).  A page of the PDF is what each       *)
(* method would give for it: pdfplumber's and PyPDF2's extract_text, the   *)
(* row-wise join of the cells of its tables, and OCR of its image.         *)
(***************************************************************************)
MIN_CHARS == 50

Texto(metodo, bruto, neto) == [metodo |-> metodo, bruto |-> bruto, neto |-> neto]

\* the empty str, whichever method gave it
TextoVacio == Texto("none", 0, 0)

\* not texto or len(texto.strip()) < 50
Insuficiente(texto) == texto.bruto = 0 \/ texto.neto < MIN_CHARS

\* PDFTextExtractor._extraer_con_pdfplumber: one text per page, [] when the
\* file cannot be opened
ExtraerConPdfplumber(pdf) ==
    IF pdf.abre THEN [i \in 1..Len(pdf.paginas) |-> pdf.paginas[i].pdfplumber]
    ELSE << >>

\* PDFTextExtractor._extraer_con_pypdf2
ExtraerConPypdf2(pdf) ==
    IF pdf.abre THEN [i \in 1..Len(pdf.paginas) |-> pdf.paginas[i].pypdf2]
    ELSE << >>

\* PDFTextExtractor._extraer_tabla_pagina
ExtraerTablaPagina(pdf, i) == pdf.paginas[i].tabla

\* PDFTextExtractor.extraer_todas_paginas: a page pdfplumber left short takes
\* PyPDF2's text if that is not empty, and a page still short after that
\* takes the table text if that is not empty
ExtraerTodasPaginas(pdf) ==
    LET textos0 == ExtraerConPdfplumber(pdf)
        textos_pypdf == ExtraerConPypdf2(pdf)
        textos1 == [i \in 1..Len(textos0) |->
                      IF /\ \E j \in 1..Len(textos0) : Insuficiente(textos0[j])
                         /\ Insuficiente(textos0[i])
                         /\ i <= Len(textos_pypdf)
                         /\ textos_pypdf[i].bruto > 0
                      THEN textos_pypdf[i] ELSE textos0[i]]
    IN  [i \in 1..Len(textos1) |->
            IF Insuficiente(textos1[i]) /\ ExtraerTablaPagina(pdf, i).bruto > 0
            THEN ExtraerTablaPagina(pdf, i) ELSE textos1[i]]

(***************************************************************************)
(* Inputs of the text acquisition specification.                           *)
(***************************************************************************)
\* empty, blank, one character short of the minimum, the minimum
SalidasDe(metodo) ==
    {TextoVacio, Texto(metodo, 3, 0), Texto(metodo, MIN_CHARS - 1, MIN_CHARS - 1),
     Texto(metodo, MIN_CHARS, MIN_CHARS)}

PaginasPdf ==
    {[pdfplumber |-> a, pypdf2 |-> b, tabla |-> c, ocr |-> o]
        : a \in SalidasDe("pdfplumber"),
          b \in SalidasDe("pypdf2") \ {Texto("pypdf2", 3, 0)},
          c \in SalidasDe("tabla") \ {Texto("tabla", 3, 0)},
          o \in {TextoVacio, Texto("ocr", MIN_CHARS, MIN_CHARS)}}

\* the pages after the first: what pdfplumber and the tables give
PaginasPdfSiguientes ==
    {[pdfplumber |-> a, pypdf2 |-> TextoVacio, tabla |-> c, ocr |-> TextoVacio]
        : a \in SalidasDe("pdfplumber") \ {Texto("pdfplumber", 3, 0)},
          c \in {TextoVacio, Texto("tabla", MIN_CHARS, MIN_CHARS)}}

RECURSIVE PaginasPdfDe(_, _)
PaginasPdfDe(n, primera) ==
    IF n = 0 THEN {<< >>}
    ELSE {<<pg>> \o resto
            : pg \in IF primera THEN PaginasPdf ELSE PaginasPdfSiguientes,
              resto \in PaginasPdfDe(n - 1, FALSE)}

PdfsDePrueba ==
    {[abre |-> FALSE, paginas |-> << >>]} \cup
    UNION {{[abre |-> TRUE, paginas |-> ps] : ps \in PaginasPdfDe(n, TRUE)}
           : n \in 0..MaxPaginasTexto}

InitTexto ==
    /\ fase = "entrada"
    /\ argumento \in PdfsDePrueba
    /\ retorno = [pendiente |-> TRUE]
    /\ SinClasif /\ SinCascada /\ SinMeta /\ SinOrquestador

\* one call of PDFTextExtractor.extraer_todas_paginas
AdquirirTexto ==
    /\ fase = "entrada"
    /\ fase' = "texto"
    /\ retorno' = [textos |-> ExtraerTodasPaginas(argumento)]
    /\ UNCHANGED argumento
    /\ UNCHANGED <<varsClasif, varsCascada, varsMeta, varsPipe>>

NextTexto == AdquirirTexto

SpecTexto == InitTexto /\ [][NextTexto]_vars

(***************************************************************************)
(* Consolidation of the stations (SedimentoExtractor._consolidar_estaciones *)
(* of sedimento_extractor.py and of sedimento.py).  A location is a record *)
(* [codigo_estacion, utm_este]; the station list is the sorted list of the *)
(* distinct codes, each with the coordinates of its first location.        *)
(***************************************************************************)

\* the station codes of the test inputs in the order of Python's sorted()
\* on str: "E10" sorts before "E2"
CodigosOrdenados == <<"E1", "E10", "E2">>

CodigosDePrueba == {CodigosOrdenados[i] : i \in 1..Len(CodigosOrdenados)}

\* sorted(codigos_unicos)
Sorted(codigos) ==
    LET F[i \in 0..Len(CodigosOrdenados)] ==
            IF i = 0 THEN << >>
            ELSE IF CodigosOrdenados[i] \in codigos
                 THEN Append(F[i - 1], CodigosOrdenados[i])
                 ELSE F[i - 1]
    IN  F[Len(CodigosOrdenados)]

\* {x['codigo_estacion'] for x in lista}
CodigosEn(lista) == {lista[i].codigo_estacion : i \in 1..Len(lista)}

\* next((u for u in ubicaciones if u['codigo_estacion'] == codigo), None), as
\* the list of the first match: << >> stands for None
UbicacionDe(ubicaciones, codigo) ==
    LET idx == {i \in 1..Len(ubicaciones) : ubicaciones[i].codigo_estacion = codigo}
    IN  IF idx = {} THEN << >>
        ELSE <<ubicaciones[CHOOSE i \in idx : \A j \in idx : i <= j]>>

\* the station dicts built from a set of codes
EstacionesDe(ubicaciones, codigos_unicos) ==
    LET orden == Sorted(codigos_unicos)
    IN  [i \in 1..Len(orden) |->
            LET ubicacion == UbicacionDe(ubicaciones, orden[i])
            IN  [codigo |-> orden[i],
                 utm_este |-> IF ubicacion # << >> THEN ubicacion[1].utm_este
                              ELSE NoneNum]]

\* sedimento_extractor.py: locations, organic-matter and pH/redox records
ConsolidarEstaciones(ubicaciones, mot, ph_redox) ==
    EstacionesDe(ubicaciones, CodigosEn(ubicaciones) \cup CodigosEn(mot \o ph_redox))

\* sedimento.py: locations and organic-matter records only
ConsolidarEstacionesMot(ubicaciones, mediciones_mot) ==
    EstacionesDe(ubicaciones, CodigosEn(ubicaciones) \cup CodigosEn(mediciones_mot))

\* the extraction result of either extractor, as far as the stations go
ResultadoEstaciones(consolidadas, ubicaciones, mot, ph_redox) ==
    [ubicaciones |-> ubicaciones, estaciones |-> consolidadas,
     mediciones_mot |-> mot, mediciones_ph_redox |-> ph_redox]

\* the measurement rows _load_sedimento_data writes for an extraction result
FilasCargadas(res) ==
    LET cods == {res.estaciones[i].codigo : i \in 1..Len(res.estaciones)}
    IN  FilasDeMediciones("sedimento_materia_organica", "OT", cods, res.mediciones_mot)
        \o FilasDeMediciones("sedimento_ph_redox", "OT", cods, res.mediciones_ph_redox)

SecuenciasHasta(S, n) == UNION {[1..k -> S] : k \in 0..n}

UbicacionesDePrueba ==
    SecuenciasHasta({[codigo_estacion |-> c, utm_este |-> 600000] : c \in CodigosDePrueba},
                    MaxMediciones)

MotDePrueba == SecuenciasHasta({Medicion(c, 950) : c \in CodigosDePrueba}, MaxMediciones)

PhRedoxDePrueba ==
    SecuenciasHasta({MedicionPh(c, 700, 40) : c \in CodigosDePrueba}, MaxMediciones)

InitConsolida ==
    /\ fase = "entrada"
    /\ argumento \in [ubicaciones : UbicacionesDePrueba, mot : MotDePrueba,
                       ph_redox : PhRedoxDePrueba]
    /\ retorno = None
    /\ SinClasif /\ SinCascada /\ SinMeta /\ SinOrquestador

\* extraer of both extractors, steps 1 to 4, followed by the measurement
\* loops of _load_sedimento_data on the result of sedimento_extractor.py
Consolidar ==
    /\ fase = "entrada"
    /\ fase' = "consolidado"
    /\ retorno' =
          LET a == argumento
              res == ResultadoEstaciones(
                         ConsolidarEstaciones(a.ubicaciones, a.mot, a.ph_redox),
                         a.ubicaciones, a.mot, a.ph_redox)
          IN  [sedimento_extractor |-> res,
               sedimento |-> ResultadoEstaciones(
                                 ConsolidarEstacionesMot(a.ubicaciones, a.mot),
                                 a.ubicaciones, a.mot, a.ph_redox),
               filas |-> FilasCargadas(res)]
    /\ UNCHANGED <<argumento, varsClasif, varsCascada, varsMeta, varsPipe>>

NextConsolida == Consolidar

SpecConsolida == InitConsolida /\ [][NextConsolida]_vars

(***************************************************************************)
(* Organic-matter rows (SedimentoExtractor._extraer_mot_con_replicas of    *)
(* sedimento_extractor.py and _extraer_mot of sedimento.py).  A line is a  *)
(* sequence of tokens: a sample code E#-R# (what the pattern               *)
(* (E\d+)-(R\d+) matches), a decimal literal (what \d+[,.]\d+ matches), an *)
(* integer literal or a word.  Literals are Python strs, sequences of      *)
(* one-character strings.  A parsed float is held in ten-thousandths, the  *)
(* stored weight in thousandths (round(x, 3)) and the stored percentage in *)
(* hundredths (round(x, 2)).                                               *)
(***************************************************************************)

TokCodigo(est, rep) == [tipo |-> "codigo", estacion |-> est, replica |-> rep]
TokNumero(str) == [tipo |-> "numero", texto |-> str]
TokEntero(str) == [tipo |-> "entero", texto |-> str]
TokPalabra(str) == [tipo |-> "palabra", texto |-> str]

\* the words of the test lines whose upper() contains 'MATERIA' and
\* 'ORGANICA' or 'ORGÁNICA' (sedimento_extractor.py)
CABECERA_MOT == {"MATERIA ORGANICA", "Materia Orgánica"}

\* sedimento.py looks for 'ORGANICA' only
CABECERA_MOT_S == {"MATERIA ORGANICA"}

\* the words whose upper() contains 'PH/REDOX', 'POTENCIAL', 'ANEXO' or
\* 'LÍMITES' (sedimento_extractor.py)
FIN_MOT == {"ANEXO", "Límites"}

\* sedimento.py has no 'LÍMITES'
FIN_MOT_S == {"ANEXO"}

\* the words whose upper() contains 'CONTINUACIÓN' or 'CONTINUACION'
CONTINUACION_MOT == {"Continuación"}

\* any(kw in linea.upper() for kw in claves), claves given by the words
\* that contain one of the keywords
ContieneClave(linea, claves) ==
    \E k \in 1..Len(linea) : linea[k].tipo = "palabra" /\ linea[k].texto \in claves

EsTipo(t, tipo) == t.tipo = tipo

\* re.findall(r'\d+[,.]\d+', linea)
EsNumero(t) == EsTipo(t, "numero")

FindallNumeros(linea) == SelectSeq(linea, EsNumero)

\* re.search(r'(E\d+)-(R\d+)', linea): the first sample code of the line,
\* << >> if there is none
EsCodigo(t) == EsTipo(t, "codigo")

SearchCodigo(linea) == SelectSeq(linea, EsCodigo)

\* the position of the decimal point of a literal
PosPunto(str) == CHOOSE k \in 1..Len(str) : str[k] = "."

\* float(str) for a literal digits.digits of at most four decimals, in
\* ten-thousandths
Float(str) ==
    LET p == PosPunto(str)
        dec == SubSeq(str, p + 1, Len(str))
        relleno == [k \in 1..(4 - Len(dec)) |-> "0"]
    IN  10000 * IntDe(SubSeq(str, 1, p - 1)) + IntDe(dec \o relleno)

\* round(x, nd) of a float in ten-thousandths, in units of 10^-nd; a tie is
\* rounded to even (the literals of the test lines have no ties)
Round(x, nd) ==
    LET u == IF nd = 3 THEN 10 ELSE 100
        q == x \div u
        r == x % u
    IN  IF 2 * r < u THEN q
        ELSE IF 2 * r > u THEN q + 1
        ELSE IF q % 2 = 0 THEN q ELSE q + 1

\* a plausible slip: the upper limit of the weight not checked
PesoSinLimiteSuperior(peso_muestra) == 100 <= peso_muestra

\* 0.01 <= peso_muestra <= 15.0
PesoEnRango(peso_muestra) == 100 <= peso_muestra /\ peso_muestra <= 150000

\* 0.5 <= mot_valor <= 100
MotEnRango(mot_valor) == 5000 <= mot_valor /\ mot_valor <= 1000000

\* numeros[0], the weight slot
PesoDe(numeros) == numeros[1]

\* a plausible slip: the last number of the line taken as the percentage
MotDeUltimo(numeros) == numeros[Len(numeros)]

\* numeros[1], the percentage slot
MotDe(numeros) == numeros[2]

\* the body of the loop for one line that is neither skipped nor the end:
\* the list of the record appended (none or one).  linea_origen is not a
\* field of the program's dict: it records the index of the source line.
RegistroDeLinea(linea, i) ==
    LET match == SearchCodigo(linea)
        numeros == FindallNumeros(linea)
        peso_muestra == Float(Replace(PesoDe(numeros).texto, ",", <<".">>))
        mot_valor == Float(Replace(MotDe(numeros).texto, ",", <<".">>))
    IN  IF match = << >> THEN << >>
        ELSE IF Len(numeros) < 2 THEN << >>
        ELSE IF ~PesoEnRango(peso_muestra) THEN << >>
        ELSE IF ~MotEnRango(mot_valor) THEN << >>
        ELSE <<[codigo_estacion |-> match[1].estacion,
                codigo_muestra |-> <<match[1].estacion, "-">> \o match[1].replica,
                replica |-> IntDe(Tail(match[1].replica)),
                peso_muestra_g |-> Round(peso_muestra, 3),
                mot_porcentaje |-> Round(mot_valor, 2),
                linea_origen |-> i]>>

\* the number of lines read from the header on
VENTANA_MOT == 200

\* the index of the first header line, 0 if there is none
IdxInicio(lineas, cabeceras) ==
    LET idx == {i \in 1..Len(lineas) : ContieneClave(lineas[i], cabeceras)}
    IN  IF idx = {} THEN 0 ELSE CHOOSE i \in idx : \A j \in idx : i <= j

\* the loop over the lines of the table
RECURSIVE LeerLineasMot(_, _, _, _, _, _)
LeerLineasMot(lineas, i, ultima, mediciones, fines, continuaciones) ==
    IF i > ultima THEN mediciones
    ELSE IF ContieneClave(lineas[i], fines) /\ mediciones # << >> THEN mediciones
    ELSE IF ContieneClave(lineas[i], continuaciones)
         THEN LeerLineasMot(lineas, i + 1, ultima, mediciones, fines, continuaciones)
    ELSE LeerLineasMot(lineas, i + 1, ultima,
                       mediciones \o RegistroDeLinea(lineas[i], i), fines, continuaciones)

ExtraerMotDe(lineas, cabeceras, fines, continuaciones) ==
    LET idx_inicio == IdxInicio(lineas, cabeceras)
        ultima == IF idx_inicio + VENTANA_MOT - 1 < Len(lineas)
                  THEN idx_inicio + VENTANA_MOT - 1 ELSE Len(lineas)
    IN  IF idx_inicio = 0 THEN << >>
        ELSE LeerLineasMot(lineas, idx_inicio, ultima, << >>, fines, continuaciones)

\* sedimento_extractor.py
ExtraerMotConReplicas(lineas) ==
    ExtraerMotDe(lineas, CABECERA_MOT, FIN_MOT, CONTINUACION_MOT)

\* sedimento.py: no continuation lines
ExtraerMot(lineas) == ExtraerMotDe(lineas, CABECERA_MOT_S, FIN_MOT_S, {})

PesosDePrueba ==
    {<<"0", ".", "5", "1", "2">>, <<"0", ".", "0", "1">>, <<"0", ".", "0", "0", "9", "9">>,
     <<"1", "5", ".", "0">>, <<"1", "5", ".", "0", "0", "0", "4">>}

PorcentajesDePrueba ==
    {<<"1", "1", ".", "3", "4">>, <<"0", ".", "5">>, <<"0", ".", "4", "9", "9", "9">>,
     <<"1", "0", "0", ".", "0">>, <<"1", "0", "0", ".", "0", "0", "4">>}

E3R2 == TokCodigo("E3", <<"R", "2">>)
E1R10 == TokCodigo("E1", <<"R", "1", "0">>)

\* the lines of a table: a sample code with a weight and a percentage, and
\* lines with a third number, comma decimals, an integer weight, one number
\* only, a decimal column before the weight, no code, two codes, and the end
\* and continuation words
LineasDePrueba ==
    {<<E3R2, TokNumero(w), TokNumero(p)>> : w \in PesosDePrueba, p \in PorcentajesDePrueba}
    \cup {<<E1R10, TokNumero(<<"1", "0", ".", "0", "3", "0">>),
            TokNumero(<<"1", "1", ".", "4", "7">>), TokNumero(<<"1", "2", ".", "2">>)>>,
          <<E1R10, TokNumero(<<"1", "0", ",", "0", "2", "1">>),
            TokNumero(<<"9", ",", "1", "1", "6">>)>>,
          <<E3R2, TokEntero(<<"1", "0">>), TokNumero(<<"1", "1", ".", "3", "4">>),
            TokNumero(<<"9", ".", "5">>)>>,
          <<E3R2, TokNumero(<<"0", ".", "5", "1", "2">>)>>,
          <<E3R2, TokNumero(<<"2", "5", ".", "5">>), TokNumero(<<"0", ".", "5", "1", "2">>),
            TokNumero(<<"1", "1", ".", "3", "4">>)>>,
          <<TokPalabra("Muestra"), TokNumero(<<"0", ".", "5", "1", "2">>),
            TokNumero(<<"1", "1", ".", "3", "4">>)>>,
          <<E1R10, E3R2, TokNumero(<<"0", ".", "5", "1", "2">>),
            TokNumero(<<"1", "1", ".", "3", "4">>)>>,
          <<TokPalabra("ANEXO")>>,
          <<TokPalabra("Límites"), E3R2, TokNumero(<<"0", ".", "5", "1", "2">>),
            TokNumero(<<"1", "1", ".", "3", "4">>)>>,
          <<TokPalabra("Continuación"), E3R2, TokNumero(<<"0", ".", "5", "1", "2">>),
            TokNumero(<<"1", "1", ".", "3", "4">>)>>}

\* the first line of a text: a header either extractor finds, a header only
\* sedimento_extractor.py finds, or no header
PrimerasLineas ==
    {<<TokPalabra("MATERIA ORGANICA")>>, <<TokPalabra("Materia Orgánica")>>,
     <<TokPalabra("Muestra")>>}

TextosMot ==
    {<<c>> \o t : c \in PrimerasLineas, t \in SecuenciasHasta(LineasDePrueba, MaxLineas)}

InitMot ==
    /\ fase = "entrada"
    /\ argumento \in TextosMot
    /\ retorno = None
    /\ SinClasif /\ SinCascada /\ SinMeta /\ SinOrquestador

\* _extraer_mot_con_replicas and _extraer_mot on the same text
ExtraerMotDelTexto ==
    /\ fase = "entrada"
    /\ fase' = "mot"
    /\ retorno' = [sedimento_extractor |-> ExtraerMotConReplicas(argumento),
                   sedimento |-> ExtraerMot(argumento)]
    /\ UNCHANGED <<argumento, varsClasif, varsCascada, varsMeta, varsPipe>>

NextMot == ExtraerMotDelTexto

SpecMot == InitMot /\ [][NextMot]_vars

(***************************************************************************)
(* pH/redox rows (SedimentoExtractor._extraer_ph_redox_con_replicas of     *)
(* sedimento_extractor.py and _extraer_ph_redox of sedimento.py).  Lines   *)
(* are sequences of tokens as in the organic-matter section; here the      *)
(* station of a sample code is a str too, because r'-?\d+' also matches    *)
(* the digits inside the code and inside decimal literals.  pH and         *)
(* temperature are held in ten-thousandths, redox and Eh in mV.            *)
(***************************************************************************)

\* int(str) for an optional minus sign and digits
IntConSigno(str) == IF Head(str) = "-" THEN 0 - IntDe(Tail(str)) ELSE IntDe(str)

\* the matches of r'-?\d+' inside one token, as ints: the two numbers of a
\* sample code (the hyphen is followed by R), the integer and the decimal
\* part of a decimal literal, an integer literal with its sign
EnterosDeToken(t) ==
    IF t.tipo = "codigo" THEN <<IntDe(Tail(t.estacion)), IntDe(Tail(t.replica))>>
    ELSE IF t.tipo = "numero"
         THEN LET str == Replace(t.texto, ",", <<".">>)
                  p == PosPunto(str)
              IN  <<IntDe(SubSeq(str, 1, p - 1)), IntDe(SubSeq(str, p + 1, Len(str)))>>
    ELSE IF t.tipo = "entero" THEN <<IntConSigno(t.texto)>>
    ELSE << >>

\* [int(x) for x in re.findall(r'-?\d+', linea)]
RECURSIVE FindallEnteros(_)
FindallEnteros(linea) ==
    IF linea = << >> THEN << >>
    ELSE EnterosDeToken(Head(linea)) \o FindallEnteros(Tail(linea))

\* [float(x.replace(',', '.')) for x in re.findall(r'(\d+[,.]\d+)', linea)]
FindallFloats(linea) ==
    LET numeros == FindallNumeros(linea)
    IN  [k \in 1..Len(numeros) |-> Float(Replace(numeros[k].texto, ",", <<".">>))]

\* 6.0 <= val <= 8.5
EsPh(val) == 60000 <= val /\ val <= 85000

\* elif 5.0 <= val <= 20.0
EsTemperatura(val) == ~EsPh(val) /\ 50000 <= val /\ val <= 200000

\* -500 <= num <= -50
EsRedox(num) == -500 <= num /\ num <= -50

\* elif -400 <= num <= 400
EsEh(num) == ~EsRedox(num) /\ -400 <= num /\ num <= 400

Primero(lista) == IF lista = << >> THEN NoneNum ELSE lista[1]

Ultimo(lista) == IF lista = << >> THEN NoneNum ELSE lista[Len(lista)]

\* the dict both functions append
RegistroPh(linea, i, ph, redox, eh, temperatura) ==
    LET match == SearchCodigo(linea)
    IN  [codigo_estacion |-> match[1].estacion,
         codigo_muestra |-> match[1].estacion \o <<"-">> \o match[1].replica,
         replica |-> IntDe(Tail(match[1].replica)),
         ph |-> ph, potencial_redox_mv |-> redox, eh_mv |-> eh,
         temperatura_c |-> temperatura,
         linea_origen |-> i]

\* sedimento_extractor.py, the body of the loop for one line: the first pH,
\* the first redox, the last Eh; a record if a pH or an Eh was found
RegistroDeLineaPh(linea, i) ==
    LET ph_valores == SelectSeq(FindallFloats(linea), EsPh)
        temperaturas == SelectSeq(FindallFloats(linea), EsTemperatura)
        redox_valores == SelectSeq(FindallEnteros(linea), EsRedox)
        eh_valores == SelectSeq(FindallEnteros(linea), EsEh)
    IN  IF SearchCodigo(linea) = << >> THEN << >>
        ELSE IF ph_valores # << >> \/ eh_valores # << >>
        THEN <<RegistroPh(linea, i, Primero(ph_valores), Primero(redox_valores),
                          Ultimo(eh_valores), Ultimo(temperaturas))>>
        ELSE << >>

\* sedimento.py, the body of the loop for one line: the last pH, redox and
\* Eh; a record if the pH or the Eh is truthy
RegistroDeLineaPhS(linea, i) ==
    LET ph == Ultimo(SelectSeq(FindallFloats(linea), EsPh))
        temperatura == Ultimo(SelectSeq(FindallFloats(linea), EsTemperatura))
        potencial_redox == Ultimo(SelectSeq(FindallEnteros(linea), EsRedox))
        eh == Ultimo(SelectSeq(FindallEnteros(linea), EsEh))
    IN  IF SearchCodigo(linea) = << >> THEN << >>
        ELSE IF Truthy(ph) \/ Truthy(eh)
        THEN <<RegistroPh(linea, i, ph, potencial_redox, eh, temperatura)>>
        ELSE << >>

\* the words whose upper() contains 'PH/REDOX' or 'POTENCIAL'
CABECERA_PH == {"PH/REDOX", "Potencial redox"}

\* the words whose upper() contains 'ANEXO', 'LÍMITES' or 'LIMITE'
\* (sedimento_extractor.py)
FIN_PH == {"ANEXO", "Límites", "Limite"}

\* the words whose upper() contains 'ANEXO' or 'LÍMITE' (sedimento.py)
FIN_PH_S == {"ANEXO", "Límites"}

\* the loop over the lines of the table; extractor is "sedimento_extractor"
\* or "sedimento"
RECURSIVE LeerLineasPh(_, _, _, _, _)
LeerLineasPh(lineas, i, ultima, mediciones, extractor) ==
    IF i > ultima THEN mediciones
    ELSE IF /\ ContieneClave(lineas[i], IF extractor = "sedimento" THEN FIN_PH_S ELSE FIN_PH)
            /\ mediciones # << >>
         THEN mediciones
    ELSE LeerLineasPh(lineas, i + 1, ultima,
                      mediciones \o (IF extractor = "sedimento"
                                     THEN RegistroDeLineaPhS(lineas[i], i)
                                     ELSE RegistroDeLineaPh(lineas[i], i)),
                      extractor)

ExtraerPhRedoxDe(lineas, extractor) ==
    LET idx_inicio == IdxInicio(lineas, CABECERA_PH)
        ultima == IF idx_inicio + VENTANA_MOT - 1 < Len(lineas)
                  THEN idx_inicio + VENTANA_MOT - 1 ELSE Len(lineas)
    IN  IF idx_inicio = 0 THEN << >>
        ELSE LeerLineasPh(lineas, idx_inicio, ultima, << >>, extractor)

\* sedimento_extractor.py
ExtraerPhRedoxConReplicas(lineas) == ExtraerPhRedoxDe(lineas, "sedimento_extractor")

\* sedimento.py
ExtraerPhRedox(lineas) == ExtraerPhRedoxDe(lineas, "sedimento")

CodigoPh(est, rep) == TokCodigo(<<"E">> \o est, <<"R">> \o rep)

\* E1-R1 | -343 | 6.9 | 10 | 217 | -126, the line of the docstring
LineaDocumentada ==
    <<CodigoPh(<<"1">>, <<"1">>), TokEntero(<<"-", "3", "4", "3">>),
      TokNumero(<<"6", ".", "9">>), TokEntero(<<"1", "0">>),
      TokEntero(<<"2", "1", "7">>), TokEntero(<<"-", "1", "2", "6">>)>>

\* the lines of a table: the documented line, the same with a last column
\* of 40 and a comma, of 126 and a decimal temperature, with a first column
\* of -30; lines with a code and no column, a word, a temperature only, a pH
\* only, numbers out of every range; a line without a code; end words
LineasPhDePrueba ==
    {LineaDocumentada,
     <<CodigoPh(<<"1">>, <<"1">>), TokEntero(<<"-", "3", "4", "3">>),
       TokNumero(<<"6", ",", "9">>), TokEntero(<<"1", "0">>),
       TokEntero(<<"2", "1", "7">>), TokEntero(<<"4", "0">>)>>,
     <<CodigoPh(<<"2">>, <<"1">>), TokEntero(<<"-", "3", "4", "3">>),
       TokNumero(<<"6", ".", "9">>), TokNumero(<<"1", "0", ".", "5">>),
       TokEntero(<<"2", "1", "7">>), TokEntero(<<"1", "2", "6">>)>>,
     <<CodigoPh(<<"2">>, <<"2">>), TokEntero(<<"-", "3", "0">>),
       TokNumero(<<"7", ".", "4">>), TokEntero(<<"1", "0">>),
       TokEntero(<<"2", "1", "7">>), TokEntero(<<"1", "8", "7">>)>>,
     <<CodigoPh(<<"1">>, <<"1">>)>>,
     <<CodigoPh(<<"0">>, <<"0">>)>>,
     <<CodigoPh(<<"2">>, <<"3">>), TokPalabra("sin datos")>>,
     <<CodigoPh(<<"5", "0", "0">>, <<"5", "0", "0">>), TokNumero(<<"9", ".", "5">>)>>,
     <<CodigoPh(<<"5", "0", "0">>, <<"5", "0", "0">>), TokEntero(<<"9", "0", "0">>)>>,
     <<CodigoPh(<<"1">>, <<"2">>), TokNumero(<<"7", ".", "2">>)>>,
     <<TokEntero(<<"-", "3", "4", "3">>), TokNumero(<<"6", ".", "9">>)>>,
     <<TokPalabra("ANEXO")>>,
     <<TokPalabra("Limite"), CodigoPh(<<"3">>, <<"1">>), TokNumero(<<"7", ".", "2">>),
       TokEntero(<<"1", "2", "0">>)>>}

PrimerasLineasPh ==
    {<<TokPalabra("PH/REDOX")>>, <<TokPalabra("Potencial redox")>>, <<TokPalabra("Muestra")>>}

TextosPh ==
    {<<c>> \o t : c \in PrimerasLineasPh, t \in SecuenciasHasta(LineasPhDePrueba, MaxLineas)}

InitPh ==
    /\ fase = "entrada"
    /\ argumento \in TextosPh
    /\ retorno = None
    /\ SinClasif /\ SinCascada /\ SinMeta /\ SinOrquestador

\* _extraer_ph_redox_con_replicas and _extraer_ph_redox on the same text
ExtraerPhRedoxDelTexto ==
    /\ fase = "entrada"
    /\ fase' = "ph_redox"
    /\ retorno' = [sedimento_extractor |-> ExtraerPhRedoxConReplicas(argumento),
                   sedimento |-> ExtraerPhRedox(argumento)]
    /\ UNCHANGED <<argumento, varsClasif, varsCascada, varsMeta, varsPipe>>

NextPh == ExtraerPhRedoxDelTexto

SpecPh == InitPh /\ [][NextPh]_vars

(***************************************************************************)
(* Averages and diagnosis: extraer of sedimento.py (steps 4 to 6) and of   *)
(* sedimento_extractor.py (steps 5 to 7) on the lists the table readers    *)
(* return.  pH and organic matter in hundredths, Eh in mV.                 *)
(***************************************************************************)
\* sum(valores)
RECURSIVE Sum(_)
Sum(valores) == IF valores = << >> THEN 0 ELSE Head(valores) + Sum(Tail(valores))

\* round(s / n, k) with s in units of 10^-k: the nearest unit, a tie to the
\* even one
RoundDiv(s, n) ==
    LET q == s \div n
        r == s % n
    IN  IF 2 * r < n THEN q
        ELSE IF 2 * r > n THEN q + 1
        ELSE IF q % 2 = 0 THEN q ELSE q + 1

\* the keys of the dict promedios, in insertion order
RECURSIVE CodigosEnOrden(_)
CodigosEnOrden(mediciones) ==
    IF mediciones = << >> THEN << >>
    ELSE LET previos == CodigosEnOrden(SubSeq(mediciones, 1, Len(mediciones) - 1))
             codigo == mediciones[Len(mediciones)].codigo_estacion
         IN  IF \E i \in 1..Len(previos) : previos[i] = codigo THEN previos
             ELSE Append(previos, codigo)

\* the records of one station, in the order read
DeEstacion(mediciones, codigo) ==
    SelectSeq(mediciones, LAMBDA med : med.codigo_estacion = codigo)

\* _calcular_promedios_mot (the same in both extractors)
CalcularPromediosMot(mediciones) ==
    LET codigos == CodigosEnOrden(mediciones)
    IN  [i \in 1..Len(codigos) |->
            LET de == DeEstacion(mediciones, codigos[i])
                valores == [j \in 1..Len(de) |-> de[j].mot_porcentaje]
            IN  [codigo_estacion |-> codigos[i],
                 mot_promedio |-> RoundDiv(Sum(valores), Len(valores)),
                 num_replicas |-> Len(valores)]]

\* sedimento_extractor.py: if med['ph'] is not None
SeAnota(v) == v # NoneNum

\* sedimento.py: if med['ph']
SeAnotaS(v) == Truthy(v)

\* the test under which a value is appended to the list of its station
Anota(v, por_verdad) == IF por_verdad THEN SeAnotaS(v) ELSE SeAnota(v)

\* the per-station loop of _calcular_promedios_ph_redox
PromediosPhRedoxCon(mediciones, por_verdad) ==
    LET codigos == CodigosEnOrden(mediciones)
    IN  [i \in 1..Len(codigos) |->
            LET de == DeEstacion(mediciones, codigos[i])
                con_ph == SelectSeq(de, LAMBDA med : Anota(med.ph, por_verdad))
                con_eh == SelectSeq(de, LAMBDA med : Anota(med.eh_mv, por_verdad))
                ph_valores == [j \in 1..Len(con_ph) |-> con_ph[j].ph]
                eh_valores == [j \in 1..Len(con_eh) |-> con_eh[j].eh_mv]
            IN  [codigo_estacion |-> codigos[i],
                 ph_promedio |-> IF ph_valores # << >>
                                 THEN RoundDiv(Sum(ph_valores), Len(ph_valores))
                                 ELSE NoneNum,
                 eh_promedio |-> IF eh_valores # << >>
                                 THEN RoundDiv(Sum(eh_valores), Len(eh_valores))
                                 ELSE NoneNum]]

\* SedimentoExtractor._calcular_promedios_ph_redox (sedimento_extractor.py)
CalcularPromediosPhRedox(mediciones) == PromediosPhRedoxCon(mediciones, FALSE)

\* SedimentoExtractor._calcular_promedios_ph_redox (sedimento.py)
CalcularPromediosPhRedoxS(mediciones) == PromediosPhRedoxCon(mediciones, TRUE)

\* extraer of sedimento_extractor.py from the consolidation on
ExtraerDesde(a) ==
    LET consolidadas == ConsolidarEstaciones(a.ubicaciones, a.mot, a.ph_redox)
        p_mot == CalcularPromediosMot(a.mot)
        p_ph == CalcularPromediosPhRedox(a.ph_redox)
    IN  [estaciones |-> consolidadas, promedios_mot |-> p_mot,
         promedios_ph_redox |-> p_ph,
         diagnostico |-> DeterminarEstadoCentro(consolidadas, p_mot, p_ph, a.tipo)]

\* extraer of sedimento.py from the consolidation on
ExtraerDesdeS(a) ==
    LET consolidadas == ConsolidarEstacionesMot(a.ubicaciones, a.mot)
        p_mot == CalcularPromediosMot(a.mot)
        p_ph == CalcularPromediosPhRedoxS(a.ph_redox)
    IN  [estaciones |-> consolidadas, promedios_mot |-> p_mot,
         promedios_ph_redox |-> p_ph,
         diagnostico |-> DiagnosticarEstado(consolidadas, p_mot, p_ph, a.tipo)]

\* the first k stations of the location table
UbicacionesDiag ==
    {[i \in 1..k |-> [codigo_estacion |-> CodigosOrdenados[i], utm_este |-> 600000]] :
        k \in 0..Len(CodigosOrdenados)}

\* no organic-matter record, or station E1 at 9.00 % alone or followed by a
\* replicate at 10.00 %
MotDiag ==
    {<< >>, <<Medicion("E1", 900)>>, <<Medicion("E1", 900), Medicion("E1", 1000)>>}

\* replicates at pH 7.00 with an Eh of 0, 30 or 60 mV
PhRedoxDiag ==
    SecuenciasHasta({MedicionPh(c, 700, eh) : c \in CodigosDePrueba, eh \in {0, 30, 60}},
                    MaxRegistros)

InitDiag ==
    /\ fase = "entrada"
    /\ argumento \in [ubicaciones : UbicacionesDiag, mot : MotDiag,
                      ph_redox : PhRedoxDiag,
                      tipo : {"INFA", "INFA-POSTANAEROBICA"}]
    /\ retorno = None
    /\ SinClasif /\ SinCascada /\ SinMeta /\ SinOrquestador

\* extraer of both extractors, from the consolidation to the diagnosis
Diagnosticar ==
    /\ fase = "entrada"
    /\ fase' = "diagnosticado"
    /\ retorno' = [sedimento_extractor |-> ExtraerDesde(argumento),
                   sedimento |-> ExtraerDesdeS(argumento)]
    /\ UNCHANGED <<argumento, varsClasif, varsCascada, varsMeta, varsPipe>>

NextDiag == Diagnosticar

SpecDiag == InitDiag /\ [][NextDiag]_vars

(***************************************************************************)
(* Properties of the classifier (checked under SpecClasif).                *)
(***************************************************************************)
Clasificado == fase = "clasificado"

\* C1: for a non-empty station set the diagnosis is anaerobic exactly when the
\* organic-matter violation count or the joint pH/Eh violation count reaches
\* umbral_estaciones; otherwise it is aerobic (both classifiers).
C1_AnaerobicoSiiUmbral ==
    (Clasificado /\ Len(estaciones) >= 1) =>
        \A d \in {diagnostico, diagnostico_s} :
            /\ d.es_anaerobico \in BOOLEAN
            /\ d.es_anaerobico <=>
                   (\/ d.incumplimientos_mot >= d.umbral_estaciones
                    \/ d.incumplimientos_ph_eh >= d.umbral_estaciones)

\* the joint pH/Eh count alone reaches the threshold exactly
C1_Witness ==
    /\ Clasificado
    /\ Len(estaciones) >= 1
    /\ diagnostico.es_anaerobico
    /\ diagnostico.incumplimientos_mot < diagnostico.umbral_estaciones
    /\ diagnostico.incumplimientos_ph_eh = diagnostico.umbral_estaciones

\* C2: a station that fails only one of pH / Eh, or whose pH or Eh average is
\* missing, is never counted in incumplimientos_ph_eh: the count never exceeds
\* the number of stations whose pH average is below pH-min and whose Eh average
\* is below Eh-min at the same time.
C2_ConteoConjuntoEsAnd ==
    (Clasificado /\ Len(estaciones) >= 1) =>
        \A d \in {diagnostico, diagnostico_s} :
            LET ambos == {i \in 1..Len(promedios_ph_redox) :
                            /\ promedios_ph_redox[i].ph_promedio # NoneNum
                            /\ promedios_ph_redox[i].eh_promedio # NoneNum
                            /\ promedios_ph_redox[i].ph_promedio < d.umbrales_aplicados.pH
                            /\ promedios_ph_redox[i].eh_promedio < d.umbrales_aplicados.Eh}
            IN  d.incumplimientos_ph_eh <= Cardinality(ambos)

\* three one-sided or incomplete stations and no joint violation counted
C2_Witness ==
    /\ Clasificado
    /\ Len(estaciones) >= 1
    /\ tipo_monitoreo = "INFA"
    /\ Len(promedios_ph_redox) >= 3
    /\ \E i, j, k \in 1..Len(promedios_ph_redox) :
          /\ promedios_ph_redox[i].ph_promedio = 700
          /\ promedios_ph_redox[i].eh_promedio = 50
          /\ promedios_ph_redox[j].ph_promedio = 710
          /\ promedios_ph_redox[j].eh_promedio = 49
          /\ promedios_ph_redox[k].ph_promedio = NoneNum
    /\ diagnostico.incumplimientos_ph_eh = 0
    /\ diagnostico_s.incumplimientos_ph_eh = 0

\* C3: incumplimientos_mot is the number of organic-matter averages strictly
\* above the applied MOT maximum; the eight-station example under INFA gives
\* 3 violations and ANAEROBIC; under INFA, with every average <= 9.0 and no
\* station failing pH and Eh together, the diagnosis is AEROBIC.
C3_ConteoMotEstricto ==
    (Clasificado /\ Len(estaciones) >= 1) =>
        \A d \in {diagnostico, diagnostico_s} :
            /\ d.incumplimientos_mot =
                   Cardinality({i \in 1..Len(promedios_mot) :
                       promedios_mot[i].mot_promedio > d.umbrales_aplicados.MOT})
            /\ (/\ tipo_monitoreo = "INFA"
                /\ Len(estaciones) = 8
                /\ [i \in 1..Len(promedios_mot) |-> promedios_mot[i].mot_promedio]
                       = <<1000, 950, 910, 800, 800, 800, 700, 700>>)
               => (d.incumplimientos_mot = 3 /\ d.es_anaerobico)
            /\ (/\ tipo_monitoreo = "INFA"
                /\ \A i \in 1..Len(promedios_mot) :
                       promedios_mot[i].mot_promedio <= 900
                /\ \A i \in 1..Len(promedios_ph_redox) :
                       \/ promedios_ph_redox[i].ph_promedio \in {NoneNum} \cup (710..1400)
                       \/ promedios_ph_redox[i].eh_promedio \in {NoneNum} \cup (50..500))
               => ~d.es_anaerobico

\* the eight-station example has been classified
C3_Witness ==
    /\ Clasificado
    /\ tipo_monitoreo = "INFA"
    /\ Len(estaciones) = 8
    /\ promedios_mot = ListaMot(EjemploMot)
    /\ diagnostico.incumplimientos_mot = 3
    /\ diagnostico.es_anaerobico

C5_SinEstaciones ==
    (Clasificado /\ estaciones = << >>) =>
        \A d \in {diagnostico, diagnostico_s} :
            /\ d.es_anaerobico = FALSE
            /\ d.incumplimientos_mot = 0
            /\ d.incumplimientos_ph_eh = 0
            /\ "total_estaciones" \in DOMAIN d
            /\ d.total_estaciones = 0

\* C6: the thresholds applied are the table entry of INFA (9.0, 7.1, 50),
\* INFA-POSTANAEROBICA (8.0, 7.1, 75) or CPS (9.0, 7.1, 50); any other
\* monitoring type, a missing one included, gets the INFA thresholds; the
\* violation counts are taken against these values.
C6_UmbralesPorTipo ==
    (Clasificado /\ Len(estaciones) >= 1) =>
        \A d \in {diagnostico, diagnostico_s} :
            LET esperado == IF tipo_monitoreo = "INFA-POSTANAEROBICA"
                            THEN <<800, 710, 75>> ELSE <<900, 710, 50>>
                u == d.umbrales_aplicados
            IN  /\ <<u.MOT, u.pH, u.Eh>> = esperado
                /\ d.incumplimientos_mot =
                       Cardinality({i \in 1..Len(promedios_mot) :
                           promedios_mot[i].mot_promedio > esperado[1]})
                /\ d.incumplimientos_ph_eh <=
                       Cardinality({i \in 1..Len(promedios_ph_redox) :
                           /\ promedios_ph_redox[i].ph_promedio \in 0..(esperado[2] - 1)
                           /\ promedios_ph_redox[i].eh_promedio \in -500..(esperado[3] - 1)})

\* a missing monitoring type classified with the INFA thresholds: 9.0 itself
\* is not counted
C6_Witness ==
    /\ Clasificado
    /\ Len(estaciones) >= 1
    /\ tipo_monitoreo = None
    /\ \E i \in 1..Len(promedios_mot) : promedios_mot[i].mot_promedio = 900
    /\ diagnostico.umbrales_aplicados.MOT = 900
    /\ diagnostico.incumplimientos_mot = 0

(***************************************************************************)
(* Properties of the pattern search (checked under SpecCascada).           *)
(***************************************************************************)
Buscado == fase = "buscado"

\* C9: the value returned by the page cascade comes from the first page, in
\* document order, on which some pattern of the field matches, and on that page
\* from the lowest-index pattern that matches (its leftmost match); re.search
\* is handed no later page and no later pattern once a match is found.
C9_PrimeraPaginaPrimerPatron ==
    (Buscado /\ campo \in DOMAIN METADATA_PATTERNS_EC) =>
        LET patrones == METADATA_PATTERNS_EC[campo]
            r == resultado.paginas
            Donde(p, k) == {i \in 1..Len(textos[p]) : textos[p][i].forma \in patrones[k]}
            ConMatch == {p \in 1..Len(textos) : \E k \in 1..Len(patrones) : Donde(p, k) # {}}
        IN  IF ConMatch = {} THEN r.valor = None
            ELSE LET p0 == CHOOSE p \in ConMatch : \A q \in ConMatch : p <= q
                     k0 == CHOOSE k \in 1..Len(patrones) :
                               /\ Donde(p0, k) # {}
                               /\ \A j \in 1..(k - 1) : Donde(p0, j) = {}
                     i0 == CHOOSE i \in Donde(p0, k0) : \A j \in Donde(p0, k0) : i <= j
                 IN  /\ r.valor = textos[p0][i0].valor
                     /\ r.consultas # << >>
                     /\ r.consultas[Len(r.consultas)] = <<p0, k0>>
                     /\ \A n \in 1..Len(r.consultas) :
                            \/ r.consultas[n][1] < p0
                            \/ r.consultas[n][1] = p0 /\ r.consultas[n][2] <= k0

\* page 1 matches only the second OT pattern, page 2 also the first one, and
\* the value of page 1 is returned
C9_Witness ==
    /\ Buscado
    /\ campo = "OT"
    /\ Len(textos) = 2
    /\ Len(textos[1]) = 1 /\ textos[1][1].forma = "O.T. n"
    /\ Len(textos[2]) >= 1 /\ textos[2][1].forma = "OT-n"
    /\ textos[1][1].valor # textos[2][1].valor
    /\ resultado.paginas.valor = textos[1][1].valor
    /\ resultado.paginas.consultas = <<<<1, 1>>, <<1, 2>>>>

\* C10 as stated: every search function returns the (leftmost) match of the
\* earliest-priority pattern that matches anywhere in the document, also when a
\* lower-priority pattern matches on an earlier page.
C10_PrioridadSobreTodoElDocumento ==
    (Buscado /\ campo \in DOMAIN METADATA_PATTERNS_EC) =>
        LET patrones == METADATA_PATTERNS_EC[campo]
            todo == Join(textos)
            Donde(k) == {i \in 1..Len(todo) : todo[i].forma \in patrones[k]}
            Alguno == {k \in 1..Len(patrones) : Donde(k) # {}}
        IN  IF Alguno = {}
            THEN resultado.paginas.valor = None /\ resultado.buscar = None
            ELSE LET k0 == CHOOSE k \in Alguno : \A j \in Alguno : k <= j
                     i0 == CHOOSE i \in Donde(k0) : \A j \in Donde(k0) : i <= j
                 IN  /\ resultado.paginas.valor = todo[i0].valor
                     /\ resultado.buscar = todo[i0].valor

\* C10 amended: the searches over the joined text (_search_with_patterns,
\* _buscar_con_patrones) return the leftmost match of the earliest-priority
\* pattern that matches anywhere in the document; the page cascade gives that
\* priority only within the first page that has a match: there it returns the
\* earliest-priority pattern's match even when a lower-priority pattern matches
\* further left on the same page, and it never goes past that page.
C10_PrioridadDentroDeLaPagina ==
    Buscado =>
        LET todo == Join(textos)
            Global(patrones, valor) ==
                LET Donde(k) == {i \in 1..Len(todo) : todo[i].forma \in patrones[k]}
                    Alguno == {k \in 1..Len(patrones) : Donde(k) # {}}
                IN  IF Alguno = {} THEN valor = None
                    ELSE LET k0 == CHOOSE k \in Alguno : \A j \in Alguno : k <= j
                             i0 == CHOOSE i \in Donde(k0) : \A j \in Donde(k0) : i <= j
                         IN  valor = todo[i0].valor
            Local(patrones, valor) ==
                LET Pags == {p \in 1..Len(textos) :
                               \E i \in 1..Len(textos[p]), k \in 1..Len(patrones) :
                                   textos[p][i].forma \in patrones[k]}
                IN  IF Pags = {} THEN valor = None
                    ELSE LET p0 == CHOOSE p \in Pags : \A q \in Pags : p <= q
                             pag == textos[p0]
                             Ks == {k \in 1..Len(patrones) :
                                      \E i \in 1..Len(pag) : pag[i].forma \in patrones[k]}
                             k0 == CHOOSE k \in Ks : \A j \in Ks : k <= j
                         IN  \E i \in 1..Len(pag) :
                                /\ pag[i].forma \in patrones[k0]
                                /\ \A j \in 1..(i - 1) : pag[j].forma \notin patrones[k0]
                                /\ valor = pag[i].valor
        IN  /\ campo \in DOMAIN METADATA_PATTERNS =>
                Global(METADATA_PATTERNS[campo], resultado.search)
            /\ campo \in DOMAIN METADATA_PATTERNS_EC =>
                /\ Global(METADATA_PATTERNS_EC[campo], resultado.buscar)
                /\ Local(METADATA_PATTERNS_EC[campo], resultado.paginas.valor)

\* one page where a fragment only the second OT pattern matches stands left of
\* one the first pattern matches: every search returns the latter
C10_Witness ==
    /\ Buscado
    /\ campo = "OT"
    /\ Len(textos) >= 1
    /\ Len(textos[1]) >= 2
    /\ textos[1][1].forma = "O.T. n"
    /\ textos[1][2].forma = "OT-n"
    /\ textos[1][1].valor # textos[1][2].valor
    /\ resultado.paginas.valor = textos[1][2].valor
    /\ resultado.search = textos[1][2].valor
    /\ resultado.buscar = textos[1][2].valor

(***************************************************************************)
(* Properties of the metadata extraction (checked under SpecMeta).         *)
(***************************************************************************)
Extraido == fase = "extraido"

\* C8: whenever an OT pattern matches the file name the work-order code is the
\* file name's (the match of the first pattern that matches it); page text
\* decides only when the file name yields none; a code from the file name is
\* never replaced by a value from page text or from the OCR pass.
C8_OtDelNombreDeArchivo ==
    Extraido =>
        LET patrones == METADATA_PATTERNS_EC.OT
            nombre == documento.nombre
            EnNombre(k) == {i \in 1..Len(nombre) : nombre[i].forma \in patrones[k]}
            Ks == {k \in 1..Len(patrones) : EnNombre(k) # {}}
            OtsDe(texto) == {texto[i].valor :
                               i \in {j \in 1..Len(texto) :
                                        \E k \in 1..Len(patrones) :
                                            texto[j].forma \in patrones[k]}}
            enTexto == UNION {OtsDe(documento.paginas[p].texto) :
                                p \in 1..Len(documento.paginas)}
        IN  IF Ks # {}
            THEN LET k0 == CHOOSE k \in Ks : \A j \in Ks : k <= j
                     i0 == CHOOSE i \in EnNombre(k0) : \A j \in EnNombre(k0) : i <= j
                 IN  metadatos.codigo_ot = nombre[i0].valor
            ELSE \/ metadatos.codigo_ot = None
                 \/ documento.abre /\ metadatos.codigo_ot \in enTexto

\* the file name carries an OT, page 1 is short and carries another OT, the OCR
\* pass fills fields, and the record keeps the file name's OT
C8_Witness ==
    /\ Extraido
    /\ documento.nombre # << >>
    /\ documento.abre
    /\ Len(documento.paginas) >= 1
    /\ ~documento.paginas[1].larga
    /\ documento.paginas[1].texto # << >>
    /\ documento.paginas[1].texto[1].forma = "OT-n"
    /\ documento.ocr # DictVacio
    /\ metadatos.tipo_monitoreo = documento.ocr.tipo_monitoreo
    /\ metadatos.codigo_ot = "1001"

\* the fallback: no OT in the file name, the page text supplies it
C8_WitnessTexto ==
    /\ Extraido
    /\ documento.nombre = << >>
    /\ metadatos.codigo_ot = "2002"

(***************************************************************************)
(* Properties of the orchestrator (checked under Spec).                    *)
(***************************************************************************)
\* C7: when metadata extraction returns no work-order code for a file,
\* process_single_pdf stops after the metadata step: the file is counted as
\* failed (fallidos grows by one, exitosos does not change), neither the
\* measurement extraction nor the classification nor any later step runs, and
\* the database is left as it was.
C7_SinOtSeDetiene ==
    [][(EsLlamada /\ ExtraerTodos(ultimo'.doc).codigo_ot = None) =>
          /\ ultimo'.pasos = <<"metadatos">>
          /\ ~ultimo'.exito
          /\ stats' = [stats EXCEPT !.fallidos = @ + 1]
          /\ db' = db]_vars

\* a file that opens and is a sediment report but has no OT in its name or
\* text was processed, with the database enabled and already holding the rows
\* of an earlier file
C7_Witness ==
    /\ fase = "pipeline"
    /\ ~dry_run
    /\ db # {}
    /\ stats.exitosos = 1
    /\ stats.fallidos = 1
    /\ ultimo.codigo_ot = None
    /\ ultimo.doc.abre
    /\ ultimo.doc.sedimento.estaciones # << >>
    /\ DetectarTipoInforme(ultimo.doc) = "SEDIMENTO"
    /\ ultimo.pasos = <<"metadatos">>

(***************************************************************************)
(* Properties of the date normalisation (checked under SpecFecha).         *)
(***************************************************************************)
Normalizada == fase = "normalizada"

\* the input is DD/MM/YYYY or DD-MM-YYYY: two digits, two digits, four digits
EsDDMMYYYY(f) ==
    /\ f.ancho = 2
    /\ ~f.blanco
    /\ f.sep1 \in {"/", "-"}
    /\ f.sep2 \in {"/", "-"}

\* C11: each of the three date normalisations maps a DD/MM/YYYY or DD-MM-YYYY
\* string with day in 1..31, month in 1..12 and year in 1900..2100 to
\* YYYY-MM-DD with two-digit month and day, and maps such a string with a
\* component outside those bounds to None, never to a date string.
C11_FechaNormalizada ==
    (Normalizada /\ EsDDMMYYYY(argumento)) =>
        LET f == argumento
            esperado ==
                IF f.dia \in 1..31 /\ f.mes \in 1..12 /\ f.anio \in 1900..2100
                THEN Escribir(f.anio, 4) \o <<"-">> \o Escribir(f.mes, 2)
                        \o <<"-">> \o Escribir(f.dia, 2)
                ELSE None
        IN  /\ retorno.normalizar_fecha = esperado
            /\ retorno.normalizar_fecha_ocr = esperado
            /\ retorno.normalize_date = esperado

\* 09-12/2024 is normalised to 2024-12-09 by the three functions
C11_Witness ==
    /\ Normalizada
    /\ argumento.fecha_str = <<"0", "9", "-", "1", "2", "/", "2", "0", "2", "4">>
    /\ retorno.normalizar_fecha = <<"2", "0", "2", "4", "-", "1", "2", "-", "0", "9">>
    /\ retorno.normalize_date = retorno.normalizar_fecha
    /\ retorno.normalizar_fecha_ocr = retorno.normalizar_fecha

\* 32/12/2024 is rejected by the three functions
C11_WitnessFueraDeRango ==
    /\ Normalizada
    /\ argumento.fecha_str = <<"3", "2", "/", "1", "2", "/", "2", "0", "2", "4">>
    /\ retorno.normalizar_fecha = None
    /\ retorno.normalize_date = None
    /\ retorno.normalizar_fecha_ocr = None

(***************************************************************************)
(* Properties of the monitoring type normalisation (checked under          *)
(* SpecTipo).                                                              *)
(***************************************************************************)
\* C12: the monitoring type stored in the record is None or one of INFA,
\* INFA-POSTANAEROBICA, CPS, by keyword precedence: INFA-POSTANAEROBICA when
\* the matched text contains the post-anaerobic keyword (even with INFA or
\* CPS), otherwise INFA when it contains INFA, otherwise CPS when it contains
\* CPS, otherwise None.
C12_TipoEsEnum ==
    fase = "tipo" =>
        LET v == argumento.capturado
            t == retorno.tipo_monitoreo
        IN  IF EnValorUpper("POST", v) THEN t = "INFA-POSTANAEROBICA"
            ELSE IF EnValorUpper("INFA", v) THEN t = "INFA"
            ELSE IF EnValorUpper("CPS", v) THEN t = "CPS"
            ELSE t = None

(***************************************************************************)
(* Properties of the OCR pass in the metadata extraction (checked under    *)
(* SpecMeta).                                                              *)
(***************************************************************************)
\* page 1 of the document exists and has under 50 characters of text
PrimeraPaginaCorta ==
    /\ documento.abre
    /\ Len(documento.paginas) >= 1
    /\ ~documento.paginas[1].larga

\* C13: when page 1 is short and the OCR pass fills some fields, every field
\* it filled keeps the OCR value, and a field it left empty (here the
\* monitoring type) is still resolved by the page cascade when some page's
\* text matches one of its patterns.
C13_OcrParcialYCascada ==
    (Extraido /\ PrimeraPaginaCorta /\ documento.ocr_estado = "ok"
        /\ documento.ocr # DictVacio) =>
        /\ \A k \in DOMAIN documento.ocr : metadatos[k] = documento.ocr[k]
        /\ ("tipo_monitoreo" \notin DOMAIN documento.ocr
              /\ \E p \in 1..Len(documento.paginas) : documento.paginas[p].tipo # None)
           => metadatos.tipo_monitoreo # None

\* C14: when page 1 is short and the OCR pass is unavailable or fails,
\* extraer_todos still returns the metadata record, not an exception, and
\* only the fields nothing resolves are None: the work-order code is there
\* when the file name or a page carries one, the monitoring type when a page
\* carries one.
C14_SinOcrDevuelveRegistro ==
    (Extraido /\ PrimeraPaginaCorta /\ documento.ocr_estado # "ok") =>
        /\ metadatos # Excepcion
        /\ DOMAIN metadatos = {"nombre_archivo", "codigo_ot", "codigo_centro",
                               "tipo_monitoreo"}
        /\ (\/ documento.nombre # << >>
            \/ \E p \in 1..Len(documento.paginas) : documento.paginas[p].texto # << >>
                   /\ documento.paginas[p].texto[1].forma \in {"OT-n", "ORDEN TRABAJO n"})
           => metadatos.codigo_ot # None
        /\ (\E p \in 1..Len(documento.paginas) : documento.paginas[p].tipo # None)
           => metadatos.tipo_monitoreo # None

\* OCR is not installed, page 1 is short, and the record comes from the text:
\* the OT and the monitoring type of the pages
C14_Witness ==
    /\ Extraido
    /\ PrimeraPaginaCorta
    /\ documento.ocr_estado = "no_disponible"
    /\ documento.nombre = << >>
    /\ metadatos.codigo_ot = "2002"
    /\ metadatos.tipo_monitoreo = "INFA-POSTANAEROBICA"
    /\ metadatos.codigo_centro = None

(***************************************************************************)
(* Properties of the text acquisition (checked under SpecTexto).           *)
(***************************************************************************)
\* the outputs of the methods for page i in the priority order: the native
\* text layer (read by pdfplumber, then by PyPDF2), the tables, OCR
MetodosEnOrden(i) ==
    <<argumento.paginas[i].pdfplumber, argumento.paginas[i].pypdf2,
      argumento.paginas[i].tabla, argumento.paginas[i].ocr>>

BastantesDe(i) == {k \in 1..4 : MetodosEnOrden(i)[k].neto >= MIN_CHARS}

\* C15: for every page, independently of the others, the text returned is
\* the output of the first method in the order native text, table
\* reconstruction, OCR whose output has at least 50 characters, and a page
\* whose native text meets the threshold keeps it.
C15_PrimerMetodoSuficiente ==
    (fase = "texto" /\ argumento.abre) =>
        /\ Len(retorno.textos) = Len(argumento.paginas)
        /\ \A i \in 1..Len(argumento.paginas) :
              BastantesDe(i) # {} =>
                  retorno.textos[i] =
                      MetodosEnOrden(i)[CHOOSE k \in BastantesDe(i) :
                                            \A j \in BastantesDe(i) : k <= j]

\* C16: when no method yields at least 50 characters for a page, the text
\* returned for it is empty; a text shorter than the threshold is never
\* returned.
C16_NuncaTextoCorto ==
    (fase = "texto" /\ argumento.abre) =>
        \A i \in 1..Len(retorno.textos) :
            /\ BastantesDe(i) = {} => retorno.textos[i] = TextoVacio
            /\ retorno.textos[i] = TextoVacio \/ retorno.textos[i].neto >= MIN_CHARS

(***************************************************************************)
(* A file that cannot be opened (checked under Spec).                      *)
(***************************************************************************)
\* C17: when the PDF cannot be opened, process_single_pdf ends with the file
\* counted as failed exactly once, nothing written to the database and no
\* step run twice, whether or not the file name carries a work-order code.
C17_NoAbreFallaUnaVez ==
    [][(EsLlamada /\ ~ultimo'.doc.abre) =>
          /\ ~ultimo'.exito
          /\ stats' = [stats EXCEPT !.fallidos = @ + 1]
          /\ db' = db
          /\ \A i, j \in 1..Len(ultimo'.pasos) :
                 ultimo'.pasos[i] = ultimo'.pasos[j] => i = j
          /\ \A i \in 1..Len(ultimo'.pasos) : ultimo'.pasos[i] # "carga"]_vars

\* a file with an OT in its name that cannot be opened got as far as the
\* sediment extractor and failed there, after an earlier file was loaded
C17_Witness ==
    /\ fase = "pipeline"
    /\ ~dry_run
    /\ db # {}
    /\ ~ultimo.doc.abre
    /\ ultimo.codigo_ot = "1002"
    /\ ultimo.pasos = <<"metadatos", "tipo_informe", "extraccion">>
    /\ stats.fallidos = 1
    /\ stats.exitosos = 1

\* a file without an OT in its name that cannot be opened fails at the
\* metadata step
C17_WitnessSinOt ==
    /\ fase = "pipeline"
    /\ stats.fallidos = 1
    /\ ~ultimo.doc.abre
    /\ ultimo.codigo_ot = None
    /\ ultimo.pasos = <<"metadatos">>

(***************************************************************************)
(* Properties of the station consolidation (checked under SpecConsolida).  *)
(***************************************************************************)

Consolidado == fase = "consolidado"

\* the codes of the consolidated station list of an extraction result
CodigosConsolidados(res) == {res.estaciones[i].codigo : i \in 1..Len(res.estaciones)}

\* every organic-matter and every pH/redox record of the result has its
\* station in the consolidated list
MedicionesConEstacion(res) ==
    CodigosEn(res.mediciones_mot) \cup CodigosEn(res.mediciones_ph_redox)
        \subseteq CodigosConsolidados(res)

\* C18: in the extraction result of sedimento_extractor.py and in that of
\* sedimento.py, the station code of every organic-matter record and of
\* every pH/redox record appears in the consolidated station list, and the
\* load writes one row per measurement (none is skipped for lack of a
\* station).  Violated: sedimento.py consolidates the locations and the
\* organic-matter records only, so a station that occurs only in pH/redox
\* records is missing from its list.
C18_EstacionesDeTodasLasMediciones ==
    Consolidado =>
        /\ MedicionesConEstacion(retorno.sedimento_extractor)
        /\ MedicionesConEstacion(retorno.sedimento)
        /\ Len(retorno.filas) = Len(argumento.mot) + Len(argumento.ph_redox)

\* the part of C18 that the extractor used by main.py satisfies
C18_EnSedimentoExtractor ==
    Consolidado =>
        /\ MedicionesConEstacion(retorno.sedimento_extractor)
        /\ Len(retorno.filas) = Len(argumento.mot) + Len(argumento.ph_redox)

\* a station found only in pH/redox records
C18_WitnessSoloPhRedox ==
    /\ Consolidado
    /\ CodigosEn(argumento.ph_redox) \ (CodigosEn(argumento.ubicaciones)
                                          \cup CodigosEn(argumento.mot)) # {}

(***************************************************************************)
(* Properties of the organic-matter rows (checked under SpecMot).          *)
(***************************************************************************)

MotExtraido == fase = "mot"

\* the line of the specification's example: E3-R2 0.512 11.34
LineaDeEjemplo ==
    <<E3R2, TokNumero(<<"0", ".", "5", "1", "2">>), TokNumero(<<"1", "1", ".", "3", "4">>)>>

\* a station-replica line whose weight or percentage (its first and second
\* decimal numbers) is outside [0.01, 15.0] or [0.5, 100]
FueraDeRango(linea) ==
    /\ SearchCodigo(linea) # << >>
    /\ Len(FindallNumeros(linea)) >= 2
    /\ LET peso == Float(Replace(FindallNumeros(linea)[1].texto, ",", <<".">>))
           mot == Float(Replace(FindallNumeros(linea)[2].texto, ",", <<".">>))
       IN  peso < 100 \/ peso > 150000 \/ mot < 5000 \/ mot > 1000000

\* the records of a list are in range, carry the code of their source line
\* and none comes from a line out of range
RegistrosMotValidos(mediciones) ==
    /\ \A k \in 1..Len(mediciones) :
          LET r == mediciones[k]
              linea == argumento[r.linea_origen]
          IN  /\ 10 <= r.peso_muestra_g /\ r.peso_muestra_g <= 15000
              /\ 50 <= r.mot_porcentaje /\ r.mot_porcentaje <= 10000
              /\ SearchCodigo(linea) # << >>
              /\ r.codigo_estacion = SearchCodigo(linea)[1].estacion
              /\ r.replica = IntDe(Tail(SearchCodigo(linea)[1].replica))
              /\ ~FueraDeRango(linea)
              /\ linea = LineaDeEjemplo =>
                    /\ r.codigo_estacion = "E3" /\ r.replica = 2
                    /\ r.peso_muestra_g = 512 /\ r.mot_porcentaje = 1134

\* C19: every organic-matter record emitted by either extractor has its
\* weight in [0.01, 15.0] and its percentage in [0.5, 100] and carries the
\* station code and the replica number of its source line (E3-R2 0.512 11.34
\* gives station E3, replica 2, weight 0.512, percentage 11.34); a
\* station-replica line whose weight or percentage is out of range gives no
\* record.
C19_RegistrosMotEnRango ==
    MotExtraido =>
        /\ RegistrosMotValidos(retorno.sedimento_extractor)
        /\ RegistrosMotValidos(retorno.sedimento)

\* the example line and a line with a weight above 15.0 in one table: one
\* record, from the example line
C19_Witness ==
    /\ MotExtraido
    /\ Len(argumento) = 3
    /\ argumento[2] = LineaDeEjemplo
    /\ argumento[3] = <<E3R2, TokNumero(<<"1", "5", ".", "0", "0", "0", "4">>),
                          TokNumero(<<"1", "1", ".", "3", "4">>)>>
    /\ Len(retorno.sedimento_extractor) = 1
    /\ Len(retorno.sedimento) = 1
    /\ retorno.sedimento[1].linea_origen = 2

(***************************************************************************)
(* The load of one document (checked under Spec).                          *)
(***************************************************************************)
\* the rows derived from documents: work orders, stations, organic-matter
\* and pH/redox rows
FilasDeDocumentos(base) == {f \in base : f.tabla # "centros"}

\* C20: the rows of one document (work order, stations, organic-matter rows,
\* pH/redox rows) are written all or none: when the load of a document
\* fails, no row of a document is added to the database.  Violated:
\* get_or_create_centro and every insert_with_identity open and commit a
\* transaction of their own, so the rows inserted before the failing insert
\* remain.
C20_CargaTodoONada ==
    [][(EsLlamada /\ ~ultimo'.exito) => FilasDeDocumentos(db') = FilasDeDocumentos(db)]_vars

(***************************************************************************)
(* Duplicate work orders under the SKIP policy (checked under Spec).       *)
(***************************************************************************)
OrdenesDeTrabajo(base) == {f \in base : f.tabla = "ordenes_trabajo"}

\* the step just taken ran the load
LlegoACarga(u) == \E i \in 1..Len(u.pasos) : u.pasos[i] = "carga"

\* the part of C21 about the skip itself: a load whose work-order code is
\* already in the store reports failure and leaves the store as it was, a
\* work-order row is never changed or removed, and there is at most one
\* work-order row per code
C21_SkipNoEscribe ==
    [][/\ (EsLlamada /\ LlegoACarga(ultimo') /\ OtExiste(db, ultimo'.codigo_ot)) =>
              ~ultimo'.exito /\ db' = db
       /\ OrdenesDeTrabajo(db) \subseteq OrdenesDeTrabajo(db')
       /\ \A f, g \in OrdenesDeTrabajo(db') : f.ot = g.ot => f = g]_vars

\* C21: under SKIP a load whose work-order code already exists reports
\* failure and writes or deletes no row; hence there is at most one
\* work-order row per code, and it is the row of the first successful load:
\* a work-order row enters the store only in a load that succeeds.
\* Violated: a load that fails after the insert of the work order leaves its
\* row committed, and every later load of that code is skipped.
C21_UnaFilaDelPrimerExito ==
    [][/\ (EsLlamada /\ LlegoACarga(ultimo') /\ OtExiste(db, ultimo'.codigo_ot)) =>
              ~ultimo'.exito /\ db' = db
       /\ OrdenesDeTrabajo(db) \subseteq OrdenesDeTrabajo(db')
       /\ \A f, g \in OrdenesDeTrabajo(db') : f.ot = g.ot => f = g
       /\ OrdenesDeTrabajo(db') # OrdenesDeTrabajo(db) => ultimo'.exito]_vars

(***************************************************************************)
(* Dry run (checked under Spec).                                           *)
(***************************************************************************)
\* C22: with the dry-run flag set, a document with a work-order code, of type
\* SEDIMENTO and whose extraction does not raise runs metadata extraction,
\* report-type detection, measurement extraction, classification and
\* validation, never the load (the only place where the store is read or
\* written), leaves the store as it was and is counted as successful.
C22_DryRunNoTocaLaBase ==
    [][(EsLlamada /\ dry_run) =>
          /\ db' = db
          /\ ~LlegoACarga(ultimo')
          /\ (Len(ultimo'.pasos) >= 3 /\ ultimo'.doc.abre) =>
                /\ ultimo'.pasos = <<"metadatos", "tipo_informe", "extraccion",
                                     "clasificacion", "validacion">>
                /\ ultimo'.exito
                /\ stats' = [stats EXCEPT !.exitosos = @ + 1]]_vars

\* the second dry run of a document with measurements: five steps, no load,
\* counted as successful
C22_Witness ==
    /\ fase = "pipeline"
    /\ dry_run
    /\ db = {}
    /\ stats.exitosos = 2
    /\ ultimo.exito
    /\ Len(ultimo.pasos) = 5
    /\ ultimo.doc.sedimento.mediciones_mot # << >>

(***************************************************************************)
(* Validation (checked under Spec).                                        *)
(***************************************************************************)
\* the step just taken ran the validation
LlegoAValidacion(u) == \E i \in 1..Len(u.pasos) : u.pasos[i] = "validacion"

\* the part of C23 about the pipeline going on: a document that was
\* validated goes to the load unless the run is a dry run, and is counted
\* as failed only by the load
C23_ValidacionNoDetiene ==
    [][(EsLlamada /\ LlegoAValidacion(ultimo')) =>
          /\ dry_run => ultimo'.exito
          /\ ~dry_run => LlegoACarga(ultimo')
          /\ ~ultimo'.exito => LlegoACarga(ultimo')]_vars

\* C23: when the validation of the extracted measurements reports something
\* (an error or a warning), the document is marked for manual review
\* (requiere_revision) and goes on to the load.  Violated: a warning (an
\* organic-matter value above 50 %) is only logged, requiere_revision stays
\* unset; the values that would be errors are filtered out by the extractors.
C23_IncidenciasMarcanRevision ==
    [][(EsLlamada /\ LlegoAValidacion(ultimo')
          /\ ReportaIncidencias(ultimo'.doc.sedimento)) =>
          /\ ultimo'.requiere_revision
          /\ dry_run \/ LlegoACarga(ultimo')]_vars

(***************************************************************************)
(* Assignment of the numbers of an organic-matter line (checked under      *)
(* SpecMot).                                                               *)
(***************************************************************************)
\* line i is read as a table line by both extractors: the text starts with
\* a header both recognise and no line up to i holds an end or a
\* continuation word
LineaLeida(i) ==
    /\ i \in 2..Len(argumento)
    /\ ContieneClave(argumento[1], CABECERA_MOT_S)
    /\ \A j \in 1..i : ~ContieneClave(argumento[j], FIN_MOT \cup CONTINUACION_MOT)

\* the value of a decimal token, in ten-thousandths
ValorDe(t) == Float(Replace(t.texto, ",", <<".">>))

CalificaPeso(t) == 100 <= ValorDe(t) /\ ValorDe(t) <= 150000

CalificaMot(t) == 5000 <= ValorDe(t) /\ ValorDe(t) <= 1000000

\* the records a list holds for line i
RegistrosDeLaLinea(mediciones, i) ==
    {k \in 1..Len(mediciones) : mediciones[k].linea_origen = i}

\* C24 as stated: on a station-replica line that is read, a number in the
\* weight range and a different number in the percentage range anywhere on
\* the line give a record.  Violated: the slots are filled by position.
C24_AsignacionPorRango ==
    MotExtraido =>
        \A i \in 1..Len(argumento) :
            LET numeros == FindallNumeros(argumento[i])
            IN  (/\ LineaLeida(i)
                 /\ SearchCodigo(argumento[i]) # << >>
                 /\ \E a, b \in 1..Len(numeros) :
                        a # b /\ CalificaPeso(numeros[a]) /\ CalificaMot(numeros[b]))
                => /\ RegistrosDeLaLinea(retorno.sedimento_extractor, i) # {}
                   /\ RegistrosDeLaLinea(retorno.sedimento, i) # {}

\* C24, amended: on a station-replica line that is read, the first decimal
\* number is the weight and the second the percentage, whatever their
\* values; the line gives a record exactly when it has two decimal numbers,
\* the first in [0.01, 15.0] and the second in [0.5, 100], and the record
\* holds those two, rounded; further numbers are ignored.
C24_AsignacionPorPosicion ==
    MotExtraido =>
        \A i \in 1..Len(argumento) :
            (LineaLeida(i) /\ SearchCodigo(argumento[i]) # << >>) =>
                LET numeros == FindallNumeros(argumento[i])
                    emite == /\ Len(numeros) >= 2
                             /\ CalificaPeso(numeros[1])
                             /\ CalificaMot(numeros[2])
                    Conforme(mediciones) ==
                        /\ emite <=> RegistrosDeLaLinea(mediciones, i) # {}
                        /\ \A k \in RegistrosDeLaLinea(mediciones, i) :
                              /\ mediciones[k].peso_muestra_g = Round(ValorDe(numeros[1]), 3)
                              /\ mediciones[k].mot_porcentaje = Round(ValorDe(numeros[2]), 2)
                IN  Conforme(retorno.sedimento_extractor) /\ Conforme(retorno.sedimento)

\* a line with a column of 25.5 before a weight of 0.512 and a percentage of
\* 11.34 gave no record, and a line with an average after the percentage
\* gave a record with the second number
C24_Witness ==
    /\ MotExtraido
    /\ Len(argumento) = 3
    /\ LineaLeida(3)
    /\ argumento[2] = <<E3R2, TokNumero(<<"2", "5", ".", "5">>),
                          TokNumero(<<"0", ".", "5", "1", "2">>),
                          TokNumero(<<"1", "1", ".", "3", "4">>)>>
    /\ Len(FindallNumeros(argumento[3])) = 3
    /\ Len(retorno.sedimento_extractor) = 1
    /\ retorno.sedimento_extractor[1].linea_origen = 3
    /\ retorno.sedimento_extractor[1].mot_porcentaje = 1147

(***************************************************************************)
(* Properties of the pH/redox rows (checked under SpecPh).                 *)
(***************************************************************************)

PhExtraido == fase = "ph_redox"

\* the measurement columns of a line: its tokens other than the sample code
EsColumna(t) == t.tipo # "codigo"

Columnas(linea) == SelectSeq(linea, EsColumna)

\* the pH values of the decimal columns and the Eh values of the integer
\* columns of a line
PhDeColumnas(linea) ==
    {ValorDe(Columnas(linea)[k]) : k \in {j \in 1..Len(Columnas(linea)) :
        Columnas(linea)[j].tipo = "numero" /\ EsPh(ValorDe(Columnas(linea)[j]))}}

EhDeColumnas(linea) ==
    {IntConSigno(Columnas(linea)[k].texto) : k \in {j \in 1..Len(Columnas(linea)) :
        /\ Columnas(linea)[j].tipo = "entero"
        /\ IntConSigno(Columnas(linea)[j].texto) \in -400..400}}

\* the records of a list come from lines with a pH or an Eh column, and
\* hold one of those values
RegistrosPhLeidos(mediciones) ==
    \A k \in 1..Len(mediciones) :
        LET r == mediciones[k]
            linea == argumento[r.linea_origen]
        IN  /\ PhDeColumnas(linea) \cup EhDeColumnas(linea) # {}
            /\ r.ph \in PhDeColumnas(linea) \/ r.eh_mv \in EhDeColumnas(linea)

\* C25: a station-replica line whose columns hold no value in [6.0, 8.5] and
\* no integer in [-400, 400] gives no pH/redox record, and every record has
\* a pH or an Eh read from a column of its line.  Violated: the integers are
\* searched in the whole line, so the digits of the sample code (E1-R1 gives
\* 1 and 1) and of the decimals count as Eh candidates.
C25_RegistroConPhOEhLeido ==
    PhExtraido =>
        /\ RegistrosPhLeidos(retorno.sedimento_extractor)
        /\ RegistrosPhLeidos(retorno.sedimento)

\* C26: a line in the documented column order (code, redox, pH, temperature,
\* factor, Eh) whose last column is an integer in [-400, 400] gives a record
\* with that integer as eh_mv and the integer of the first column as
\* potencial_redox_mv.  Violated: an Eh of -50 or less falls in the redox
\* branch, and eh_mv becomes the factor (E1-R1 | -343 | 6.9 | 10 | 217 | -126
\* gives Eh 217).
C26_EhEsLaUltimaColumna ==
    PhExtraido =>
        \A k \in 1..Len(retorno.sedimento_extractor) :
            LET r == retorno.sedimento_extractor[k]
                c == Columnas(argumento[r.linea_origen])
            IN  (/\ Len(argumento[r.linea_origen]) = 6
                 /\ Len(c) = 5
                 /\ c[1].tipo = "entero" /\ c[2].tipo = "numero" /\ c[5].tipo = "entero"
                 /\ IntConSigno(c[5].texto) \in -400..400)
                => /\ r.eh_mv = IntConSigno(c[5].texto)
                   /\ r.potencial_redox_mv = IntConSigno(c[1].texto)

(***************************************************************************)
(* The body of the organic-matter table (checked under SpecMot).           *)
(***************************************************************************)
\* the records of a list come from lines of the table body: not after an
\* annex line that follows the header (the word of the test lines that
\* stands for the pH/redox, potential and annex headers), and at most
\* VENTANA_MOT lines past the header
DentroDelCuerpo(mediciones, cabeceras) ==
    \A k \in 1..Len(mediciones) :
        LET i == mediciones[k].linea_origen
            idx_inicio == IdxInicio(argumento, cabeceras)
        IN  /\ idx_inicio # 0
            /\ i <= idx_inicio + VENTANA_MOT
            /\ \A j \in (idx_inicio + 1)..(i - 1) : ~ContieneClave(argumento[j], FIN_MOT_S)

\* C27: no organic-matter record comes from a line after the first
\* pH/redox, potential or annex header that follows the organic-matter
\* header, nor from a line more than 200 lines past that header.  Violated:
\* the end words stop the loop only when a record has been read already, so
\* with no record before the next header the lines after it are read as
\* organic-matter lines.
C27_CuerpoDeLaTabla ==
    MotExtraido =>
        /\ DentroDelCuerpo(retorno.sedimento_extractor, CABECERA_MOT)
        /\ DentroDelCuerpo(retorno.sedimento, CABECERA_MOT_S)

\* the part of C27 that holds: an end line that follows a record stops the
\* table
C27_FinDespuesDeDatos ==
    MotExtraido =>
        \A k \in 1..Len(retorno.sedimento_extractor) :
            LET i == retorno.sedimento_extractor[k].linea_origen
            IN  \A j \in 1..(i - 1) :
                    ContieneClave(argumento[j], FIN_MOT) =>
                        \A n \in 1..Len(retorno.sedimento_extractor) :
                            retorno.sedimento_extractor[n].linea_origen >= j

(***************************************************************************)
(* Properties of the averages and of the diagnosis (checked under          *)
(* SpecDiag).                                                              *)
(***************************************************************************)
Diagnosticado == fase = "diagnosticado"

\* every replicate carries a pH in [6.0, 8.5] and an Eh in [-400, 400]
ReplicasEnRango(mediciones) ==
    \A i \in 1..Len(mediciones) :
        /\ mediciones[i].ph >= 600 /\ mediciones[i].ph <= 850
        /\ mediciones[i].eh_mv >= -400 /\ mediciones[i].eh_mv <= 400

\* the Eh values of all the replicates of a station
EhDeEstacion(mediciones, codigo) ==
    LET de == DeEstacion(mediciones, codigo)
    IN  [j \in 1..Len(de) |-> de[j].eh_mv]

\* the stations whose averages are both below the minima
BajoAmbosMinimos(proms, umbrales) ==
    {proms[i].codigo_estacion : i \in
        {j \in 1..Len(proms) : /\ proms[j].ph_promedio # NoneNum
                               /\ proms[j].ph_promedio < umbrales.pH
                               /\ proms[j].eh_promedio # NoneNum
                               /\ proms[j].eh_promedio < umbrales.Eh}}

\* C28: in sedimento.py, with every replicate pH in [6.0, 8.5] and every
\* replicate Eh in [-400, 400], the Eh average of a station is the arithmetic
\* mean of all its replicate Eh values (rounded to the unit), and every
\* station whose pH average is below pH-min and whose Eh average is below
\* Eh-min is counted in incumplimientos_ph_eh.  Violated: a replicate Eh of
\* 0 mV is falsy and is left out of the mean, and stations absent from the
\* consolidated list make the diagnosis return zero counts.
C28_PromedioEhYConteo ==
    (Diagnosticado /\ ReplicasEnRango(argumento.ph_redox)) =>
        LET r == retorno.sedimento
            proms == r.promedios_ph_redox
        IN  /\ CodigosEn(proms) = CodigosEn(argumento.ph_redox)
            /\ \A i \in 1..Len(proms) :
                  LET eh == EhDeEstacion(argumento.ph_redox, proms[i].codigo_estacion)
                  IN  proms[i].eh_promedio = RoundDiv(Sum(eh), Len(eh))
            /\ r.diagnostico.incumplimientos_ph_eh =
                  Cardinality(BajoAmbosMinimos(proms, LimitesDe(argumento.tipo)))

\* What sedimento.py does compute: the mean of the non-zero replicate Eh
\* values, None when there is none.
C28_PromedioDeNoNulos ==
    Diagnosticado =>
        LET proms == retorno.sedimento.promedios_ph_redox
        IN  \A i \in 1..Len(proms) :
                LET eh == SelectSeq(EhDeEstacion(argumento.ph_redox,
                                                 proms[i].codigo_estacion),
                                    LAMBDA v : v # 0)
                IN  proms[i].eh_promedio =
                        IF eh = << >> THEN NoneNum ELSE RoundDiv(Sum(eh), Len(eh))

\* the two counts of a diagnosis are at most n, and below three consolidated
\* stations the centre is not anaerobic
ConteosAcotados(r) ==
    LET n == Len(r.estaciones)
    IN  /\ r.diagnostico.incumplimientos_mot <= n
        /\ r.diagnostico.incumplimientos_ph_eh <= n
        /\ n < ANAEROBIC_MIN_STATIONS => ~r.diagnostico.es_anaerobico

\* the diagnosis reports the length of the consolidated list
TotalEsConsolidadas(r) ==
    "total_estaciones" \in DOMAIN r.diagnostico =>
        r.diagnostico.total_estaciones = Len(r.estaciones)

\* C29: in every diagnosis produced by extraer(), of sedimento.py and of
\* sedimento_extractor.py, incumplimientos_mot <= total_estaciones and
\* incumplimientos_ph_eh <= total_estaciones, and a document with fewer
\* than 3 consolidated stations is never diagnosed anaerobic.  Violated by
\* sedimento.py: its averages cover the stations of the pH/redox table, its
\* consolidated list does not.
C29_IncumplimientosAcotados ==
    Diagnosticado =>
        /\ TotalEsConsolidadas(retorno.sedimento)
        /\ ConteosAcotados(retorno.sedimento)
        /\ TotalEsConsolidadas(retorno.sedimento_extractor)
        /\ ConteosAcotados(retorno.sedimento_extractor)

\* sedimento_extractor.py, which consolidates the three lists, keeps the
\* counts within the number of stations.
C29_EnSedimentoExtractor ==
    Diagnosticado =>
        /\ TotalEsConsolidadas(retorno.sedimento_extractor)
        /\ ConteosAcotados(retorno.sedimento_extractor)

(***************************************************************************)
(* Properties of the counters (checked under Spec).                        *)
(***************************************************************************)
\* C30: each call of process_single_pdf increments exactly one of the
\* counters exitosos and fallidos, exactly once, on every path, and leaves
\* total alone; hence when process_directory has finished,
\* exitosos + fallidos = total.
C30_UnContadorPorLlamada ==
    /\ [][EsLlamada =>
             /\ \/ /\ stats'.exitosos = stats.exitosos + 1
                   /\ stats'.fallidos = stats.fallidos
                \/ /\ stats'.exitosos = stats.exitosos
                   /\ stats'.fallidos = stats.fallidos + 1
             /\ stats'.total = stats.total]_vars
    /\ [](fase = "terminado" => stats.exitosos + stats.fallidos = stats.total)

\* a directory of MaxDocumentos files processed to the end, one file loaded
\* and one counted as failed
C30_Witness ==
    /\ fase = "terminado"
    /\ stats.total = MaxDocumentos
    /\ stats.exitosos >= 1
    /\ stats.fallidos >= 1
    /\ "carga" \in {ultimo.pasos[i] : i \in 1..Len(ultimo.pasos)}

====
